---- MODULE Spec2Model ----
(***************************************************************************)
(* Model of the bfx-rs Bitfinex client: the transport loop of Client::get  *)
(* and Client::post (src/src/client.rs), the signed-request builder, the   *)
(* textual error-envelope scan and the error classifier.                   *)
(*                                                                         *)
(* Text is modelled as a sequence of one-character strings, so that find,  *)
(* splitn, trim_matches, contains, format! and to_string are computed the  *)
(* way the Rust code computes them.                                        *)
(***************************************************************************)
EXTENDS Integers, Sequences, FiniteSets, TLC

\* ------------------------------------------------------------------ text

Min(S) == CHOOSE x \in S : \A y \in S : x <= y

Max(S) == CHOOSE x \in S : \A y \in S : x >= y

\* s[i..] begins with p (1-based i)
StartsWithAt(s, p, i) ==
    /\ i >= 1
    /\ i + Len(p) - 1 <= Len(s)
    /\ \A k \in 1..Len(p) : s[i + k - 1] = p[k]

\* str::find(pattern): the 1-based index of the first match, 0 for None
Find(s, p) ==
    LET hits == {i \in 1..(Len(s) + 1) : StartsWithAt(s, p, i)}
    IN  IF hits = {} THEN 0 ELSE Min(hits)

\* str::contains
Contains(s, p) == Find(s, p) # 0

\* str::starts_with
starts_with(s, p) == StartsWithAt(s, p, 1)

\* &s[from..] with a 1-based first index
Tail_from(s, from) == SubSeq(s, from, Len(s))

\* str::trim_start_matches(|c| c in chars)
trim_start_matches(s, chars) ==
    LET keep == {i \in 1..Len(s) : s[i] \notin chars}
    IN  IF keep = {} THEN <<>> ELSE SubSeq(s, Min(keep), Len(s))

\* str::trim_end_matches(|c| c in chars)
trim_end_matches(s, chars) ==
    LET keep == {i \in 1..Len(s) : s[i] \notin chars}
    IN  IF keep = {} THEN <<>> ELSE SubSeq(s, 1, Max(keep))

\* str::trim_matches(|c| c in chars): both ends
trim_matches(s, chars) == trim_end_matches(trim_start_matches(s, chars), chars)

\* str::splitn(n, sep) for n >= 1: at most n parts, the last one the remainder
RECURSIVE splitn(_, _, _)
splitn(s, n, sep) ==
    LET c == Find(s, <<sep>>)
    IN  IF n <= 1 \/ c = 0
        THEN <<s>>
        ELSE <<SubSeq(s, 1, c - 1)>> \o splitn(Tail_from(s, c + 1), n - 1, sep)

Digits == <<"0", "1", "2", "3", "4", "5", "6", "7", "8", "9">>

\* u64::to_string: the decimal digits of n, no sign, no leading zero
RECURSIVE to_string(_)
to_string(n) ==
    IF n < 10 THEN <<Digits[n + 1]>>
    ELSE to_string(n \div 10) \o <<Digits[(n % 10) + 1]>>

DigitValue(ch) == (CHOOSE k \in 1..10 : Digits[k] = ch) - 1

\* the number a decimal string denotes (what the server reads from bfx-nonce)
RECURSIVE parse_u64(_)
parse_u64(s) ==
    IF Len(s) = 0 THEN 0
    ELSE 10 * parse_u64(SubSeq(s, 1, Len(s) - 1)) + DigitValue(s[Len(s)])

\* Option<T>
None == <<"None">>

Some(v) == <<"Some", v>>

IsSome(o) == o[1] = "Some"

\* Result<T, BitfinexError>
Ok(v) == [ok |-> TRUE, val |-> v]

Err(e) == [ok |-> FALSE, val |-> e]

\* ------------------------------------------------------------------ error.rs

ExceedMaxOfferCount == <<"ExceedMaxOfferCount">>

BitfinexGenericError(msg) == <<"BitfinexGenericError", msg>>

InvalidCurrency == <<"InvalidCurrency">>

InvalidKeyDigest == <<"InvalidKeyDigest">>

RateLimited == <<"RateLimited">>

BitfinexTempUnavailable == <<"BitfinexTempUnavailable">>

NonceSmall == <<"NonceSmall">>

\* ------------------------------------------------------------------ parse_error

\* the envelope looked for only at the start of a top-level array
ErrorPrefix_top_level == <<"[","\"","e","r","r","o","r","\"",",">>

\* let prefix = r#""error","#;
ErrorPrefix == <<"\"","e","r","r","o","r","\"",",">>

QuoteOrSpace == {"\"", " "}

\* fn parse_error(body: &str) -> Option<(String, String)>
\* Some(<<code, message>>) or None
parse_error(body) ==
    LET start == Find(body, ErrorPrefix)
    IN  IF start = 0 THEN None
        ELSE
          LET rest  == Tail_from(body, start + Len(ErrorPrefix))
              raw   == splitn(rest, 3, ",")
              parts == [k \in DOMAIN raw |-> trim_matches(raw[k], QuoteOrSpace)]
          IN  IF Len(parts) < 2 THEN None   \* parts.next()? on an exhausted iterator
              ELSE Some(<<parts[1],
                          trim_end_matches(trim_start_matches(parts[2], {"\""}), {"\""})>>)

\* ------------------------------------------------------------------ handle_error

\* the shorter text of the routing table
OfferLimitText_short == <<"t","o","o"," ","m","a","n","y"," ","a","c","t","i","v","e"," ","o","f","f","e","r","s">>

\* err_msg.contains("Limit: too many active offers")
OfferLimitText == <<"L","i","m","i","t",":"," ","t","o","o"," ","m","a","n","y"," ","a","c","t","i","v","e"," ","o","f","f","e","r","s">>

\* fn handle_error(&self, body: &String) -> Result<(), BitfinexError>
handle_error(body) ==
    LET parsed == parse_error(body)
    IN  IF ~IsSome(parsed) THEN Ok(<<>>)
        ELSE
          LET err_code == parsed[2][1]
              err_msg  == parsed[2][2]
          IN  CASE err_code = <<"1","0","0","0","1">> ->
                     IF Contains(err_msg, OfferLimitText)
                     THEN Err(ExceedMaxOfferCount)
                     ELSE Err(BitfinexGenericError(err_msg))
                [] err_code = <<"1","0","0","2","0">> -> Err(InvalidCurrency)
                [] err_code = <<"1","0","1","0","0">> -> Err(InvalidKeyDigest)
                [] err_code = <<"1","0","1","1","4">> -> Err(NonceSmall)
                [] err_code = <<"1","1","0","0","0">> -> Err(BitfinexTempUnavailable)
                [] err_code = <<"1","1","0","1","0">> -> Err(RateLimited)
                [] OTHER -> Err(BitfinexGenericError(err_msg))

\* ------------------------------------------------------------------ bounds

\* number of calls issued on the one Client (they may run concurrently)
NCalls == 2

\* the wall clock advances in steps of TickMicros microseconds
TickMicros == 500000

\* the wall clock is followed up to MaxClock microseconds
MaxClock == 7500000

\* the wall clock reading at construction of the Client, in microseconds
StartClock == 1000000

\* ------------------------------------------------------------------ program constants

\* Duration::as_secs: microseconds of the clock in one whole second
MicrosPerSec == 1000000

\* since_epoch.as_secs() * 1_000_000
NonceScale == 1000000

\* let retry_cnt: u8 = 5;
retry_cnt == 5

\* let retry_interval = 1;   (seconds, Duration::from_secs)
retry_interval == 1

BITFINEX_PUB_HOST == <<"h","t","t","p","s",":","/","/","a","p","i","-","p","u","b",".","b","i","t","f","i","n","e","x",".","c","o","m","/","v","2">>

BITFINEX_AUTH_HOST == <<"h","t","t","p","s",":","/","/","a","p","i",".","b","i","t","f","i","n","e","x",".","c","o","m","/","v","2">>

ExceedRetryText == <<"E","x","c","e","e","d"," ","m","a","x"," ","r","e","t","r","y"," ","c","o","u","n","t">>

\* println!("Catched NonceSmall error. Retrying..");
CatchedNonceSmallText == <<"C","a","t","c","h","e","d"," ","N","o","n","c","e","S","m","a","l","l"," ","e","r","r","o","r","."," ","R","e","t","r","y","i","n","g",".",".">>

\* ------------------------------------------------------------------ state

VARIABLES
    clock,        \* SystemTime::now() in microseconds since the epoch
    api_key,      \* Client.api_key
    api_secret,   \* Client.api_secret
    pc,           \* per call: where the future of get/post stands
    args,         \* per call: method, url, payload, params
    attempt,      \* per call: index of the for loop, 0..=retry_cnt
    req,          \* per call: the request of the current attempt
    prevReq,      \* per call: the request of the attempt before
    builtAt,      \* per call: clock reading when the current request was built
    outcome,      \* per call: how the latest finished attempt ended
    body,         \* per call: the response text read in the current attempt
    wake,         \* per call: earliest clock reading at which the sleep is over
    result,       \* per call: the value get/post returned
    sent,         \* per call: number of requests sent
    fails,        \* per call: attempts that ended in a transport failure / NonceSmall
    serverMax,    \* largest nonce the server has accepted for the credential
    stdout,       \* per call: the lines println! wrote, in order
    decoded,      \* the latest from_str::<T>(..): type, JSON value read, result
    returned      \* per call: what the operation handed back to its caller

vars == <<clock, api_key, api_secret, pc, args, attempt, req, prevReq, builtAt,
          outcome, body, wake, result, sent, fails, serverMax, stdout, decoded,
                   returned>>

Calls == 1..NCalls

NoReq == [method |-> "none"]

NoResult == [ok |-> FALSE, val |-> <<"pending">>]

NoDecode == [type |-> "none"]

\* ------------------------------------------------------------------ inputs

GetUrls == {<<"p","l","a","t","f","o","r","m","/","s","t","a","t","u","s">>}

\* (url, payload, params) of post_url, post_with_payload and post_with_params
PostArgs ==
    { [method |-> "post", url |-> <<"a","u","t","h","/","r","/","w","a","l","l","e","t","s">>, payload |-> None, params |-> None],
      [method |-> "post", url |-> <<"c","a","l","c","/","f","x">>,
       payload |-> Some(<<"{","\"","c","c","y","1","\"",":","\"","B","T","C","\"",",","\"","c","c","y","2","\"",":","\"","U","S","D","\"","}">>), params |-> None],
      [method |-> "post", url |-> <<"a","u","t","h","/","r","/","l","e","d","g","e","r","s","/","U","S","D","/","h","i","s","t">>, payload |-> None,
       params |-> Some(<<<<"limit", <<"2","5">>>>>>)] }

GetArgs == {[method |-> "get", url |-> u, payload |-> None, params |-> None] : u \in GetUrls}

NonceSmallBody == <<"[","\"","e","r","r","o","r","\"",",","1","0","1","1","4",",","\"","n","o","n","c","e",":"," ","s","m","a","l","l","\"","]">>

\* response texts of the transport model: one of each class of handle_error
RespBodies ==
    { NonceSmallBody,
      <<"[","\"","e","r","r","o","r","\"",",","1","0","0","0","1",",","\"","L","i","m","i","t",":"," ","t","o","o"," ","m","a","n","y"," ","a","c","t","i","v","e"," ","o","f","f","e","r","s","\"","]">>,
      <<"[","\"","e","r","r","o","r","\"",",","1","0","0","0","1",",","\"","F","R","R"," ","o","f","f","s","e","t"," ","l","a","r","g","e","r"," ","t","h","a","n"," ","3","0","%"," ","o","f"," ","F","R","R","\"","]">>,
      <<"[","\"","e","r","r","o","r","\"",",","1","0","0","2","0",",","\"","c","u","r","r","e","n","c","y",":"," ","i","n","v","a","l","i","d","\"","]">>,
      <<"[","\"","e","r","r","o","r","\"",",","1","0","1","0","0",",","\"","a","p","i","k","e","y",":"," ","d","i","g","e","s","t"," ","i","n","v","a","l","i","d","\"","]">>,
      <<"[","\"","e","r","r","o","r","\"",",","1","1","0","0","0",",","\"","r","e","a","d","y",":"," ","i","n","v","a","l","i","d","\"","]">>,
      <<"[","\"","e","r","r","o","r","\"",","," ","1","1","0","1","0",","," ","\"","r","a","t","e","l","i","m","i","t",":"," ","e","r","r","o","r","\"","]">>,
      <<"[","\"","e","r","r","o","r","\"",",","2","0","0","6","0",",","\"","m","a","i","n","t","e","n","a","n","c","e","\"","]">>,
      <<"[","]">> }

\* ------------------------------------------------------------------ SignedRequestBuilder

\* fn sign_payload(&self, secret, payload) -> String
\* hex(HMAC-SHA384(secret, payload)), kept symbolic: an injective function of
\* (secret, payload)
sign_payload(secret, payload) == <<"hex_hmac_sha384", secret, payload>>

\* the nonce taken once, from the clock reading at construction of the Client
generate_nonce_at_construction(now) == to_string((StartClock \div MicrosPerSec) * NonceScale)

\* fn generate_nonce(&self) -> String, read at clock reading `now`
generate_nonce(now) == to_string((now \div MicrosPerSec) * NonceScale)

\* payload.unwrap_or("")
PayloadText(payload) == IF IsSome(payload) THEN payload[2] ELSE <<>>

\* the signature computed without the body
build_headers_body_unsigned(url, payload) ==
    LET nonce          == generate_nonce(clock)
        signature_path == <<"/","a","p","i","/","v","2","/">> \o url \o nonce
        signature      == sign_payload(api_secret, signature_path)
    IN  [h \in {"user-agent", "bfx-nonce", "bfx-apikey", "bfx-signature", "content-type"} |->
            CASE h = "user-agent"    -> <<"b","i","t","f","i","n","e","x","-","a","p","i","-","r","s">>
              [] h = "bfx-nonce"     -> nonce
              [] h = "bfx-apikey"    -> api_key
              [] h = "bfx-signature" -> signature
              [] h = "content-type"  -> <<"a","p","p","l","i","c","a","t","i","o","n","/","j","s","o","n">>]

\* fn build_headers(&self, url, payload) -> HeaderMap
build_headers(url, payload) ==
    LET nonce          == generate_nonce(clock)
        signature_path == <<"/","a","p","i","/","v","2","/">> \o url \o nonce \o PayloadText(payload)
        signature      == sign_payload(api_secret, signature_path)
    IN  [h \in {"user-agent", "bfx-nonce", "bfx-apikey", "bfx-signature", "content-type"} |->
            CASE h = "user-agent"    -> <<"b","i","t","f","i","n","e","x","-","a","p","i","-","r","s">>
              [] h = "bfx-nonce"     -> nonce
              [] h = "bfx-apikey"    -> api_key
              [] h = "bfx-signature" -> signature
              [] h = "content-type"  -> <<"a","p","p","l","i","c","a","t","i","o","n","/","j","s","o","n">>]

\* the nonce sent as a query parameter as well
PostRequest_nonce_as_query(a) ==
    [method   |-> "post",
     endpoint |-> BITFINEX_AUTH_HOST \o <<"/">> \o a.url,
     path     |-> a.url,
     headers  |-> build_headers(a.url, a.payload),
     body     |-> a.payload,
     query    |-> Some(<<<<"nonce", generate_nonce(clock)>>>>)]

\* the request one iteration of the loop of post builds (client.rs 647-655)
PostRequest(a) ==
    [method   |-> "post",
     endpoint |-> BITFINEX_AUTH_HOST \o <<"/">> \o a.url,
     path     |-> a.url,
     headers  |-> build_headers(a.url, a.payload),
     body     |-> a.payload,
     query    |-> a.params]

\* the request one iteration of the loop of get sends (client.rs 610)
GetRequest(a) ==
    [method   |-> "get",
     endpoint |-> BITFINEX_PUB_HOST \o <<"/">> \o a.url,
     path     |-> a.url,
     headers  |-> [h \in {} |-> <<>>],
     body     |-> None,
     query    |-> None]

Nonce(r) == r.headers["bfx-nonce"]

Signature(r) == r.headers["bfx-signature"]

\* ------------------------------------------------------------------ Client::get / Client::post

Init ==
    /\ clock = StartClock
    /\ api_key = "key"
    /\ api_secret = "secret"
    /\ pc = [c \in Calls |-> "idle"]
    /\ args = [c \in Calls |-> [method |-> "none"]]
    /\ attempt = [c \in Calls |-> 0]
    /\ req = [c \in Calls |-> NoReq]
    /\ prevReq = [c \in Calls |-> NoReq]
    /\ builtAt = [c \in Calls |-> 0]
    /\ outcome = [c \in Calls |-> "none"]
    /\ body = [c \in Calls |-> <<>>]
    /\ wake = [c \in Calls |-> 0]
    /\ result = [c \in Calls |-> NoResult]
    /\ sent = [c \in Calls |-> 0]
    /\ fails = [c \in Calls |-> [transport |-> 0, nonce |-> 0]]
    /\ serverMax = 0
    /\ stdout = [c \in Calls |-> <<>>]
    /\ decoded = NoDecode
    /\ returned = [c \in Calls |-> NoResult]

\* the range taken one too long: 0..=retry_cnt + 1
InRange_one_more(k) == k <= retry_cnt + 1

\* `for _ in 0..=retry_cnt`: whether the range holds index k
InRange(k) == k <= retry_cnt

\* one iteration of `for _ in 0..=retry_cnt` up to `.send().await`: attempt k of
\* call c with arguments a builds its request and sends it
SendAttempt(c, a, k) ==
    /\ attempt' = [attempt EXCEPT ![c] = k]
    /\ req' = [req EXCEPT ![c] = IF a.method = "post" THEN PostRequest(a) ELSE GetRequest(a)]
    /\ prevReq' = [prevReq EXCEPT ![c] = req[c]]
    /\ builtAt' = [builtAt EXCEPT ![c] = clock]
    /\ body' = [body EXCEPT ![c] = <<>>]
    /\ sent' = [sent EXCEPT ![c] = @ + 1]
    /\ pc' = [pc EXCEPT ![c] = "inflight"]

\* the caller invokes get(url) or post(url, payload, params), having printed the
\* lines `printed` before: the future runs to the first `.await`, the send of
\* attempt 0
Invoke(c, a, printed) ==
    /\ pc[c] = "idle"
    /\ args' = [args EXCEPT ![c] = a]
    /\ stdout' = [stdout EXCEPT ![c] = @ \o printed]
    /\ SendAttempt(c, a, 0)
    /\ UNCHANGED <<clock, api_key, api_secret, outcome, wake, result, fails, serverMax,
                   decoded,
                   returned>>

\* the caller invokes get(url) or post(url, payload, params)
Call(c, a) == Invoke(c, a, <<>>)

\* the retry made without sleeping
SleepUntil_no_sleep == clock

\* tokio::time::sleep(Duration::from_secs(retry_interval)).await
SleepUntil == clock + retry_interval * MicrosPerSec

\* `response` is Err: the else branch (client.rs 625-628, 672-675)
TransportError(c) ==
    /\ pc[c] = "inflight"
    /\ outcome' = [outcome EXCEPT ![c] = "transport"]
    /\ fails' = [fails EXCEPT ![c].transport = @ + 1]
    /\ wake' = [wake EXCEPT ![c] = SleepUntil]
    /\ pc' = [pc EXCEPT ![c] = "sleeping"]
    /\ UNCHANGED <<clock, api_key, api_secret, args, attempt, req, prevReq, builtAt,
                   body, result, sent, serverMax, stdout, decoded,
                   returned>>

\* RateLimited retried like NonceSmall
MatchArm_retry_rate_limited(b) ==
    LET h == handle_error(b)
    IN  IF h.ok THEN [retry |-> FALSE, ret |-> Ok(b)]
        ELSE IF h.val \in {NonceSmall, RateLimited} THEN [retry |-> TRUE, ret |-> NoResult]
        ELSE [retry |-> FALSE, ret |-> Err(h.val)]

\* the arm of `match self.handle_error(&body)` taken for response text b:
\* "retry" (sleep and continue), or the value returned
MatchArm(b) ==
    LET h == handle_error(b)
    IN  IF h.ok THEN [retry |-> FALSE, ret |-> Ok(b)]
        ELSE IF h.val = NonceSmall THEN [retry |-> TRUE, ret |-> NoResult]
        ELSE [retry |-> FALSE, ret |-> Err(h.val)]

\* `response` is Ok(resp) and resp.text() yields b (client.rs 611-624, 658-671)
Receive(c, b) ==
    /\ pc[c] = "inflight"
    /\ body' = [body EXCEPT ![c] = b]
    /\ IF MatchArm(b).retry
       THEN /\ outcome' = [outcome EXCEPT ![c] = "NonceSmall"]
            /\ fails' = [fails EXCEPT ![c].nonce = @ + 1]
            /\ wake' = [wake EXCEPT ![c] = SleepUntil]
            /\ pc' = [pc EXCEPT ![c] = "sleeping"]
            /\ stdout' = [stdout EXCEPT ![c] = Append(@, CatchedNonceSmallText)]
            /\ UNCHANGED result
       ELSE /\ outcome' = [outcome EXCEPT ![c] = "returned"]
            /\ result' = [result EXCEPT ![c] = MatchArm(b).ret]
            /\ pc' = [pc EXCEPT ![c] = "returned"]
            /\ UNCHANGED <<fails, wake, stdout>>
    /\ UNCHANGED <<clock, api_key, api_secret, args, attempt, req, prevReq, builtAt,
                   sent, decoded,
                   returned>>

\* any server: the response text is any of RespBodies
Respond(c) ==
    /\ \E b \in RespBodies : Receive(c, b)
    /\ UNCHANGED serverMax

\* `response` is Ok(resp) but resp.text().await is Err: unwrap() panics
BodyReadError(c) ==
    /\ pc[c] = "inflight"
    /\ outcome' = [outcome EXCEPT ![c] = "bodyfail"]
    /\ pc' = [pc EXCEPT ![c] = "panicked"]
    /\ UNCHANGED <<clock, api_key, api_secret, args, attempt, req, prevReq, builtAt,
                   body, wake, result, sent, fails, serverMax, stdout, decoded,
                   returned>>

\* the sleep is over: the next iteration of the loop sends its request, or the
\* loop is over and the call returns
\* Err(BitfinexGenericError("Exceed max retry count"))
Wake(c) ==
    /\ pc[c] = "sleeping"
    /\ clock >= wake[c]
    /\ IF InRange(attempt[c] + 1)
       THEN /\ SendAttempt(c, args[c], attempt[c] + 1)
            /\ UNCHANGED result
       ELSE /\ result' = [result EXCEPT ![c] = Err(BitfinexGenericError(ExceedRetryText))]
            /\ pc' = [pc EXCEPT ![c] = "returned"]
            /\ UNCHANGED <<attempt, req, prevReq, builtAt, body, sent>>
    /\ UNCHANGED <<clock, api_key, api_secret, args, outcome, wake, fails, serverMax,
                   stdout, decoded,
                   returned>>

\* a call that has not ended yet: only then does the time matter
Pending == \E c \in Calls : pc[c] \notin {"returned", "panicked", "done"}

\* time passes
Tick ==
    /\ Pending
    /\ clock + TickMicros <= MaxClock
    /\ clock' = clock + TickMicros
    /\ UNCHANGED <<api_key, api_secret, pc, args, attempt, req, prevReq, builtAt,
                   outcome, body, wake, result, sent, fails, serverMax, stdout, decoded,
                   returned>>

\* what one call does after it was invoked
CallSteps(c) ==
    \/ TransportError(c)
    \/ Respond(c)
    \/ BodyReadError(c)
    \/ Wake(c)

\* one call of get or post on the Client, against any transport and any server
Next ==
    \/ Tick
    \/ \E a \in GetArgs \cup PostArgs : Call(1, a)
    \/ CallSteps(1)

Spec == Init /\ [][Next]_vars

\* ------------------------------------------------------------------ the server's nonce check

\* the arguments of the concurrent authenticated calls
ConcArgs == {[method |-> "post", url |-> <<"a","u","t","h","/","r","/","w","a","l","l","e","t","s">>, payload |-> None, params |-> None]}

\* The server reads bfx-nonce of the request of call c: a nonce not greater than
\* the largest it has accepted is answered "nonce: small", any other is accepted.
ServerAnswer(c) ==
    /\ pc[c] = "inflight"
    /\ req[c].method = "post"
    /\ LET n == parse_u64(Nonce(req[c]))
       IN  IF n > serverMax
           THEN /\ serverMax' = n
                /\ Receive(c, <<"[","]">>)
           ELSE /\ UNCHANGED serverMax
                /\ Receive(c, NonceSmallBody)

\* post calls issued concurrently on one Client, against the nonce-checking server
NextConc ==
    \/ Tick
    \/ \E c \in Calls :
         \/ \E a \in ConcArgs : Call(c, a)
         \/ ServerAnswer(c)
         \/ Wake(c)

SpecConc == Init /\ [][NextConc]_vars

\* ------------------------------------------------------------------ response texts for the scan

EnvCodes == {<<"1","0","0","0","1">>, <<"1","0","0","2","0">>, <<"1","0","1","0","0">>, <<"1","0","1","1","4">>, <<"1","1","0","0","0">>, <<"1","1","0","1","0">>, <<"1","0","0","1","1">>, <<"2","0","0","6","0">>, <<"5","0","0">>}

EnvMessages ==
    { <<"n","o","n","c","e",":"," ","s","m","a","l","l">>,
      <<"L","i","m","i","t",":"," ","t","o","o"," ","m","a","n","y"," ","a","c","t","i","v","e"," ","o","f","f","e","r","s">>,
      <<"t","o","o"," ","m","a","n","y"," ","a","c","t","i","v","e"," ","o","f","f","e","r","s">>,
      <<"I","n","v","a","l","i","d"," ","o","f","f","e","r",":"," ","i","n","c","o","r","r","e","c","t"," ","a","m","o","u","n","t",","," ","m","i","n","i","m","u","m"," ","i","s"," ","1","5","0",".","0"," ","d","o","l","l","a","r">>,
      <<"a","p","i","k","e","y",":"," ","d","i","g","e","s","t"," ","i","n","v","a","l","i","d">>,
      <<>> }

EnvBefore == {<<>>, <<"[">>, <<" ">>, <<"[","[","0",",","\"","a","\"","]",",">>}

EnvAfter == {<<>>, <<"]">>, <<",","[","1","]","]">>}

EnvSpaces == {<<>>, <<" ">>}

\* the 3-tuple "error",<code>,"<message>" with `sp` after each comma
Envelope(code, msg, sp) == <<"\"","e","r","r","o","r","\"",",">> \o sp \o code \o <<",">> \o sp \o <<"\"">> \o msg \o <<"\"">>

EnvelopeBodies ==
    { pre \o Envelope(code, msg, sp) \o post :
        pre \in EnvBefore, code \in EnvCodes, msg \in EnvMessages,
        sp \in EnvSpaces, post \in EnvAfter }

\* response texts that hold no 3-tuple "error",<integer-code>,"<message>"
PlainBodies ==
    { <<"[","]">>,
      <<"[","[","\"","e","x","c","h","a","n","g","e","\"",",","\"","U","S","D","\"",",","1",".","5",",","0",",","1",".","5",",","n","u","l","l",",","n","u","l","l","]","]">>,
      <<"[","\"","e","r","r","o","r","\"","]">>,
      <<"{","\"","s","t","a","t","u","s","\"",":","\"","e","r","r","o","r","\"","}">>,
      <<"[","\"","e","r","r","o","r","\"",",","1","0","1","1","4","]">>,
      <<"[","1","5","0","0","0","0","0","0","0","0","0","0","0",",","\"","e","r","r","o","r","\"",",","\"","n","o","t"," ","f","o","u","n","d","\"",",","0","]">>,
      <<"[","\"","E","R","R","O","R","\"",",","1","0","1","1","4",",","\"","n","o","n","c","e",":"," ","s","m","a","l","l","\"","]">> }

ScanBodies == EnvelopeBodies \cup PlainBodies

ScanArgs ==
    { [method |-> "get", url |-> <<"p","l","a","t","f","o","r","m","/","s","t","a","t","u","s">>, payload |-> None, params |-> None],
      [method |-> "post", url |-> <<"a","u","t","h","/","r","/","w","a","l","l","e","t","s">>, payload |-> None, params |-> None] }

\* the response text is any of ScanBodies
Scan(c) ==
    /\ \E b \in ScanBodies : Receive(c, b)
    /\ UNCHANGED serverMax

\* time passes while a call sleeps, until its sleep is over
SleepTick ==
    /\ \E c \in Calls : pc[c] = "sleeping" /\ clock < wake[c]
    /\ Tick

\* one call of get or post, answered with any response text of ScanBodies
NextScan ==
    \/ \E a \in ScanArgs : Call(1, a)
    \/ Scan(1)
    \/ SleepTick
    \/ Wake(1)

SpecScan == Init /\ [][NextScan]_vars

\* ------------------------------------------------------------------ claims

ExhaustedResult == Err(BitfinexGenericError(ExceedRetryText))

Failures(c) == fails[c].transport + fails[c].nonce

\* C1: one call of get or post sends at most retry_cnt + 1 = 6 requests; transport
\* failures and NonceSmall answers draw on one budget of 6 attempts, and once 6
\* attempts have ended in either of them exactly 6 requests were sent and the call
\* ends with the 'Exceed max retry count' failure (after its last sleep).
C1_RetryBound ==
    \A c \in Calls :
        /\ sent[c] <= retry_cnt + 1
        /\ Failures(c) <= retry_cnt + 1
        /\ pc[c] = "inflight" => sent[c] = Failures(c) + 1
        /\ Failures(c) = retry_cnt + 1 =>
              /\ sent[c] = retry_cnt + 1
              /\ pc[c] \in {"sleeping", "returned"}
              /\ pc[c] = "returned" => result[c] = ExhaustedResult
        /\ (pc[c] = "returned" /\ result[c] = ExhaustedResult) =>
              /\ sent[c] = retry_cnt + 1
              /\ Failures(c) = retry_cnt + 1

\* C1 witness: a call that returned the retry-exhausted failure after a mix of
\* transport failures and NonceSmall answers
C1_Witness ==
    \E c \in Calls :
        /\ pc[c] = "returned"
        /\ result[c] = ExhaustedResult
        /\ fails[c].transport >= 1
        /\ fails[c].nonce >= 1
        /\ sent[c] = retry_cnt + 1

\* the current attempt of call c was answered with a response text
Answered(c) == pc[c] # "inflight" /\ outcome[c] \in {"NonceSmall", "returned"}

TerminalReasons ==
    {ExceedMaxOfferCount, InvalidCurrency, InvalidKeyDigest, RateLimited,
     BitfinexTempUnavailable}

IsTerminal(e) == e \in TerminalReasons \/ e[1] = "BitfinexGenericError"

\* C2: an attempt answered with a text that classifies to a reason other than
\* NonceSmall ends the call at once with that reason: no sleep is started and no
\* further request is sent; an attempt follows another only after a transport
\* failure or NonceSmall.
C2_TerminalReturnsAtOnce ==
    \A c \in Calls :
        /\ (Answered(c) /\ ~handle_error(body[c]).ok
              /\ IsTerminal(handle_error(body[c]).val)) =>
              /\ pc[c] = "returned"
              /\ result[c] = Err(handle_error(body[c]).val)
              /\ sent[c] = attempt[c] + 1
              /\ wake[c] <= builtAt[c]
        /\ (pc[c] = "inflight" /\ attempt[c] > 0) => outcome[c] \in {"transport", "NonceSmall"}
        /\ (pc[c] = "sleeping" /\ outcome[c] = "NonceSmall") =>
              handle_error(body[c]) = Err(NonceSmall)

\* C2 witness: a call that returned RateLimited on a retry, attempts remaining
C2_Witness ==
    \E c \in Calls :
        /\ pc[c] = "returned"
        /\ result[c] = Err(RateLimited)
        /\ attempt[c] >= 1
        /\ attempt[c] < retry_cnt

\* the text the signature of request r must be computed over
SignedText(r) == <<"/","a","p","i","/","v","2","/">> \o r.path \o Nonce(r) \o PayloadText(r.body)

\* C3: in post, the request sent after a NonceSmall answer is built after the
\* sleep: its nonce is read from the clock once the sleep is over, is strictly
\* greater than the nonce of the rejected request, and its signature is computed
\* over the new nonce.
C3_RetryRebuildsRequest ==
    \A c \in Calls :
        (pc[c] = "inflight" /\ req[c].method = "post" /\ outcome[c] = "NonceSmall") =>
            /\ prevReq[c].method = "post"
            /\ builtAt[c] >= wake[c]
            /\ Nonce(req[c]) = generate_nonce(builtAt[c])
            /\ parse_u64(Nonce(req[c])) > parse_u64(Nonce(prevReq[c]))
            /\ Signature(req[c]) = sign_payload(api_secret, SignedText(req[c]))
            /\ Signature(req[c]) # Signature(prevReq[c])

\* C3 witness: a post call whose retry after NonceSmall is in flight
C3_Witness ==
    \E c \in Calls :
        /\ pc[c] = "inflight"
        /\ req[c].method = "post"
        /\ outcome[c] = "NonceSmall"
        /\ attempt[c] >= 1

\* C4: every request sent by a post call carries a nonce strictly greater than
\* every nonce the server has accepted for the credential, and no two requests of
\* the credential carry the same nonce.
C4_NonceAboveAccepted ==
    [][\A c \in Calls :
          (pc'[c] = "inflight" /\ sent'[c] = sent[c] + 1) =>
              /\ parse_u64(Nonce(req'[c])) > serverMax
              /\ \A d \in Calls \ {c} :
                    req[d].method = "post" => Nonce(req'[c]) # Nonce(req[d])]_vars

\* C5: the nonce of a request is the decimal string of the clock reading, in
\* microseconds, at which it was generated.
C5_NonceIsMicroseconds ==
    \A c \in Calls :
        req[c].method = "post" => Nonce(req[c]) = to_string(builtAt[c])

\* ---- the envelope "error",<integer-code>,"<message>" located in a text,
\* ---- independently of parse_error

RECURSIVE SkipWhile(_, _, _)
\* the first index >= i of b whose character is not in chars (Len(b) + 1 if none)
SkipWhile(b, i, chars) ==
    IF i <= Len(b) /\ b[i] \in chars THEN SkipWhile(b, i + 1, chars) ELSE i

DigitChars == {Digits[k] : k \in 1..10}

\* where the parts of an envelope starting at index i of b lie: the code is
\* b[d..e-1], the message b[q+1..r-1]
EnvelopeParts(b, i) ==
    LET d == SkipWhile(b, i + Len(<<"\"","e","r","r","o","r","\"",",">>), {" "})
        e == SkipWhile(b, d, DigitChars)
        q == SkipWhile(b, e + 1, {" "})
        r == SkipWhile(b, q + 1, DigitChars \cup (({b[k] : k \in 1..Len(b)}) \ {"\""}))
    IN  [d |-> d, e |-> e, q |-> q, r |-> r]

\* "error",<integer-code>,"<message>" starts at index i of b
EnvelopeAt(b, i) ==
    /\ StartsWithAt(b, <<"\"","e","r","r","o","r","\"",",">>, i)
    /\ LET p == EnvelopeParts(b, i)
       IN  /\ p.e > p.d
           /\ p.e <= Len(b) /\ b[p.e] = ","
           /\ p.q <= Len(b) /\ b[p.q] = "\""
           /\ p.r <= Len(b) /\ b[p.r] = "\""

HasEnvelope(b) == \E i \in 1..Len(b) : EnvelopeAt(b, i)

FirstEnvelope(b) == Min({i \in 1..Len(b) : EnvelopeAt(b, i)})

\* the code and the message of the first envelope of b
EnvCode(b) == LET p == EnvelopeParts(b, FirstEnvelope(b)) IN SubSeq(b, p.d, p.e - 1)

EnvMessage(b) == LET p == EnvelopeParts(b, FirstEnvelope(b)) IN SubSeq(b, p.q + 1, p.r - 1)

\* the reason the routing table gives for (code, message)
TableReason(code, msg) ==
    CASE code = <<"1","0","0","2","0">> -> InvalidCurrency
      [] code = <<"1","0","1","0","0">> -> InvalidKeyDigest
      [] code = <<"1","0","1","1","4">> -> NonceSmall
      [] code = <<"1","1","0","0","0">> -> BitfinexTempUnavailable
      [] code = <<"1","1","0","1","0">> -> RateLimited
      [] OTHER -> BitfinexGenericError(msg)

\* the rows of the routing table for the codes other than 10001: the reason
\* depends on the code of the envelope alone
C6_TableRows ==
    \A c \in Calls :
        (Answered(c) /\ HasEnvelope(body[c]) /\ EnvCode(body[c]) # <<"1","0","0","0","1">>) =>
            LET h == handle_error(body[c])
                t == TableReason(EnvCode(body[c]), <<>>)
            IN  /\ ~h.ok
                /\ h.val[1] = t[1]

\* C6: the classifier maps the code of an envelope to one reason by the routing
\* table, whatever the message, and a text with no envelope yields no error.
C6_ClassifierTable ==
    /\ C6_TableRows
    /\ \A c \in Calls :
        (Answered(c) /\ ~HasEnvelope(body[c])) => handle_error(body[c]).ok

C8_EnvelopeNeverOk ==
    \A c \in Calls :
        (Answered(c) /\ HasEnvelope(body[c])) =>
            /\ IsSome(parse_error(body[c]))
            /\ parse_error(body[c])[2][1] = EnvCode(body[c])
            /\ ~handle_error(body[c]).ok
            /\ outcome[c] = "returned" =>
                  /\ pc[c] = "returned"
                  /\ ~result[c].ok
                  /\ result[c] = Err(handle_error(body[c]).val)
            /\ outcome[c] = "NonceSmall" => EnvCode(body[c]) = <<"1","0","1","1","4">>

\* C8 witness: a call ended by an envelope that lies inside the text, after other
\* elements, with spaces after its commas
C8_Witness ==
    \E c \in Calls :
        /\ pc[c] = "returned"
        /\ ~result[c].ok
        /\ HasEnvelope(body[c])
        /\ FirstEnvelope(body[c]) > 2
        /\ Contains(body[c], <<"\"","e","r","r","o","r","\"",","," ">>)

\* C9: a response text with no envelope "error",<integer-code>,"<message>" makes
\* get/post return Ok with exactly that text, and no further attempt is made.
C9_NoEnvelopeReturnsBody ==
    \A c \in Calls :
        (Answered(c) /\ ~HasEnvelope(body[c])) =>
            /\ pc[c] = "returned"
            /\ result[c] = Ok(body[c])
            /\ sent[c] = attempt[c] + 1

\* C10: the bfx-signature of every private request is the hex HMAC-SHA384, keyed
\* with the secret of the credential, of "/api/v2/" + path + nonce + body, with
\* the nonce of the bfx-nonce header and the body transmitted in that request
\* (empty when there is none).
C10_SignatureOfRequest ==
    \A c \in Calls :
        req[c].method = "post" =>
            /\ Signature(req[c]) = sign_payload(api_secret, SignedText(req[c]))
            /\ req[c].headers["bfx-apikey"] = api_key
            /\ req[c].path = args[c].url
            /\ req[c].body = args[c].payload

\* C10 witness: a private request with a body was sent
C10_Witness ==
    \E c \in Calls :
        /\ pc[c] = "inflight"
        /\ req[c].method = "post"
        /\ IsSome(req[c].body)
        /\ attempt[c] >= 1

\* ------------------------------------------------------------------ a transport that may stay silent

\* One call of get or post against a transport that refuses a request at once
\* (TransportError) or never answers it.  reqwest::get(&endpoint) and
\* reqwest::Client::new() set no timeout, so the code has no step of its own that
\* ends an attempt in flight.
NextSilent ==
    \/ Tick
    \/ \E a \in GetArgs \cup PostArgs : Call(1, a)
    \/ TransportError(1)
    \/ Wake(1)

\* tokio runs a future that is ready (the sleep that is over wakes the call) and time
\* passes; nothing obliges the transport to act
SpecSilent == Init /\ [][NextSilent]_vars /\ WF_vars(Tick) /\ WF_vars(Wake(1))

\* C11: every attempt is bounded by a timeout, so that an attempt in flight always
\* comes to an end (as a transport failure at the latest), even when the transport
\* never answers.
C11_AttemptTimesOut == (pc[1] = "inflight") ~> (pc[1] # "inflight")

\* ------------------------------------------------------------------ concurrent calls

\* C12: post calls issued concurrently on one Client against the nonce-checking
\* server all return success, in every interleaving: no call ever returns a
\* failure; a call in flight is answered by the server; a call that sleeps was
\* rejected for its nonce and has an attempt left, which it sends when its sleep
\* (at least the backoff interval on the clock) is over; a retry carries a nonce
\* greater than the one the server rejected, and no call needs more than
\* retry_cnt + 1 attempts.
C12_BothReturnSuccess ==
    \A c \in Calls :
        /\ pc[c] \in {"idle", "inflight", "sleeping", "returned"}
        /\ pc[c] = "returned" => result[c] = Ok(<<"[","]">>)
        /\ pc[c] = "inflight" => req[c].method = "post"
        /\ pc[c] = "sleeping" =>
              /\ outcome[c] = "NonceSmall"
              /\ InRange(attempt[c] + 1)
              /\ wake[c] >= builtAt[c] + retry_interval * MicrosPerSec
        /\ (pc[c] = "inflight" /\ attempt[c] >= 1) =>
              parse_u64(Nonce(req[c])) > parse_u64(Nonce(prevReq[c]))
        /\ sent[c] <= retry_cnt + 1

\* C12 witness: both calls returned success, one of them after its nonce was
\* rejected
C12_Witness ==
    /\ \A c \in Calls : pc[c] = "returned" /\ result[c].ok
    /\ \E c \in Calls : fails[c].nonce >= 1 /\ sent[c] = fails[c].nonce + 1

\* C13: a transport-level failure at any stage of an attempt - the send failing or
\* the read of the response body failing - is retried: the call sleeps the fixed
\* interval and makes another attempt while attempts remain, and never aborts.
C13_TransportFailureRetried ==
    \A c \in Calls :
        /\ pc[c] # "panicked"
        /\ (outcome[c] \in {"transport", "bodyfail"} /\ pc[c] = "sleeping") =>
              wake[c] >= builtAt[c] + retry_interval * MicrosPerSec
        /\ (outcome[c] \in {"transport", "bodyfail"} /\ pc[c] = "returned") =>
              result[c] = ExhaustedResult

\* ------------------------------------------------------------------ endpoint operations

\* the largest value of a u8 (period: u8, agg_p: u8)
U8Max == 255

\* a panic!(..) or an index out of range, as a value
Panics == <<"panic">>

\* impl From<BookPrecision> for u8
BookPrecisions == {1, 2, 3, 4}

\* impl From<CandleAggPeriod> for u8
CandleAggPeriod_to_u8(agg_period) ==
    CASE agg_period = "A10"  -> 10
      [] agg_period = "A30"  -> 30
      [] agg_period = "A120" -> 120
      [] agg_period = "Nil"  -> 0

\* impl From<CandleTimeFrame> for String
CandleTimeFrame_to_String(time_frame) ==
    CASE time_frame = "Min1"   -> <<"1","m">>
      [] time_frame = "Min5"   -> <<"5","m">>
      [] time_frame = "Min15"  -> <<"1","5","m">>
      [] time_frame = "Min30"  -> <<"3","0","m">>
      [] time_frame = "Hour1"  -> <<"1","h">>
      [] time_frame = "Hour3"  -> <<"3","h">>
      [] time_frame = "Hour4"  -> <<"4","h">>
      [] time_frame = "Hour6"  -> <<"6","h">>
      [] time_frame = "Hour12" -> <<"1","2","h">>
      [] time_frame = "Day1"   -> <<"1","d">>
      [] time_frame = "Week1"  -> <<"1","w">>
      [] time_frame = "Week2"  -> <<"2","w">>
      [] time_frame = "Month1" -> <<"1","M">>

\* std::cmp::max
max(a, b) == IF a >= b THEN a ELSE b

\* the minimum taken outside the subtraction only
start_period_no_floor(period, agg_p) == max(period, agg_p) - agg_p + 1

\* max(1, max(period, agg_p) - agg_p) + 1, before it is fitted into a u8
start_period(period, agg_p) == max(1, max(period, agg_p) - agg_p) + 1

\* whether the u8 arithmetic of start_period overflows or underflows
start_period_overflows(period, agg_p) ==
    \/ max(period, agg_p) - agg_p < 0
    \/ start_period(period, agg_p) > U8Max

\* Vec<String>::join(":")
RECURSIVE join(_, _)
join(parts, sep) ==
    IF Len(parts) = 0 THEN <<>>
    ELSE IF Len(parts) = 1 THEN parts[1]
    ELSE parts[1] \o sep \o join(Tail(parts), sep)

\* the query the public history endpoints append: &limit=, &start=, &end=, each
\* only when supplied (start and end as timestamp_millis())
HistQuery(url, limit, start, end) ==
    LET u1 == IF IsSome(limit) THEN url \o <<"&","l","i","m","i","t","=">> \o to_string(limit[2]) ELSE url
        u2 == IF IsSome(start) THEN u1 \o <<"&","s","t","a","r","t","=">> \o to_string(start[2]) ELSE u1
    IN  IF IsSome(end) THEN u2 \o <<"&","e","n","d","=">> \o to_string(end[2]) ELSE u2

\* the operation of call c panics before it builds or sends a request
Panic(c, op) ==
    /\ pc[c] = "idle"
    /\ pc' = [pc EXCEPT ![c] = "panicked"]
    /\ args' = [args EXCEPT ![c] = [method |-> "none", op |-> op]]
    /\ UNCHANGED <<clock, api_key, api_secret, attempt, req, prevReq, builtAt, outcome,
                   body, wake, result, sent, fails, serverMax, stdout, decoded,
                   returned>>

\* self.get(&url).await of the operation op of call c, which printed the lines
\* `printed` before
EndpointGetPrinting(c, url, op, printed) ==
    Invoke(c, [method |-> "get", url |-> url, payload |-> None, params |-> None, op |-> op],
           printed)

\* self.get(&url).await of the operation op of call c
EndpointGet(c, url, op) == EndpointGetPrinting(c, url, op, <<>>)

\* self.post_with_payload(&url, payload).await of the operation op of call c
EndpointPost(c, url, payload, op) ==
    Call(c, [method |-> "post", url |-> url, payload |-> Some(payload), params |-> None,
             op |-> op])

\* the sub query of request_funding_candles: sub_query.join(":")
funding_candles_sub_query(symbol, period, agg_period, time_frame, wrapped) ==
    LET agg_p == CandleAggPeriod_to_u8(agg_period)
        sp    == IF wrapped THEN start_period(period, agg_p) % (U8Max + 1)
                 ELSE start_period(period, agg_p)
        head  == <<<<"t","r","a","d","e">>, CandleTimeFrame_to_String(time_frame), symbol>>
        agg   == IF agg_period # "Nil"
                 THEN <<<<"a">> \o to_string(agg_p), <<"p">> \o to_string(sp)>>
                 ELSE <<>>
    IN  join(head \o agg \o <<<<"p">> \o to_string(period)>>, <<":">>)

\* pub async fn request_funding_candles(..), up to self.get(&url).await; an
\* arithmetic overflow panics in a build with overflow checks and wraps in one
\* without
request_funding_candles(c, symbol, period, agg_period, time_frame, limit, start, end) ==
    /\ pc[c] = "idle"
    /\ LET op == [name |-> "request_funding_candles", symbol |-> symbol, period |-> period,
                  agg_period |-> agg_period, time_frame |-> time_frame, limit |-> limit,
                  start |-> start, end |-> end]
           over == agg_period # "Nil"
                     /\ start_period_overflows(period, CandleAggPeriod_to_u8(agg_period))
       IN  \E overflow_checks \in BOOLEAN :
             IF over /\ overflow_checks
             THEN Panic(c, op)
             ELSE EndpointGet(c,
                    HistQuery(<<"c","a","n","d","l","e","s","/">>
                                \o funding_candles_sub_query(symbol, period, agg_period,
                                                             time_frame, over)
                                \o <<"/","h","i","s","t","?","s","o","r","t","=","-","1">>, limit, start, end),
                    op)

\* pub async fn request_funding_book(&self, symbol, prec), up to self.get(&url).await
request_funding_book(c, symbol, prec) ==
    /\ pc[c] = "idle"
    /\ LET op == [name |-> "request_funding_book", symbol |-> symbol, prec |-> prec]
       IN  IF ~starts_with(symbol, <<"f">>) THEN Panic(c, op)
           ELSE EndpointGet(c, <<"b","o","o","k","/">> \o symbol \o <<"/","P">> \o to_string(prec) \o <<"?","l","e","n","=","2","5","0">>, op)

\* pub async fn request_funding_book_raw(&self, symbol), up to self.get(&url).await
request_funding_book_raw(c, symbol) ==
    /\ pc[c] = "idle"
    /\ LET op == [name |-> "request_funding_book_raw", symbol |-> symbol]
       IN  IF ~starts_with(symbol, <<"f">>) THEN Panic(c, op)
           ELSE EndpointGet(c, <<"b","o","o","k","/">> \o symbol \o <<"/","R","0","?","l","e","n","=","2","5","0">>, op)

\* pub async fn request_funding_trades(&self, symbol, limit, start, end), up to
\* self.get(&url).await
request_funding_trades(c, symbol, limit, start, end) ==
    /\ pc[c] = "idle"
    /\ LET op == [name |-> "request_funding_trades", symbol |-> symbol, limit |-> limit,
                  start |-> start, end |-> end]
       IN  IF ~starts_with(symbol, <<"f">>) THEN Panic(c, op)
           ELSE EndpointGet(c, HistQuery(<<"t","r","a","d","e","s","/">> \o symbol \o <<"/","h","i","s","t","?","s","o","r","t","=","-","1">>,
                                         limit, start, end), op)

\* pub async fn request_funding_ticker(&self, symbol), up to self.get(&url).await
request_funding_ticker(c, symbol) ==
    /\ pc[c] = "idle"
    /\ LET op == [name |-> "request_funding_ticker", symbol |-> symbol]
       IN  IF ~starts_with(symbol, <<"f">>) THEN Panic(c, op)
           ELSE EndpointGet(c, <<"t","i","c","k","e","r","/">> \o symbol, op)

\* pub async fn request_trading_book(&self, symbol, prec), up to self.get(&url).await
request_trading_book(c, symbol, prec) ==
    /\ pc[c] = "idle"
    /\ LET op == [name |-> "request_trading_book", symbol |-> symbol, prec |-> prec]
       IN  IF ~starts_with(symbol, <<"t">>) THEN Panic(c, op)
           ELSE EndpointGet(c, <<"b","o","o","k","/">> \o symbol \o <<"/","P">> \o to_string(prec) \o <<"?","l","e","n","=","2","5","0">>, op)

\* pub async fn request_trading_book_raw(&self, symbol), up to self.get(&url).await
request_trading_book_raw(c, symbol) ==
    /\ pc[c] = "idle"
    /\ LET op == [name |-> "request_trading_book_raw", symbol |-> symbol]
       IN  IF ~starts_with(symbol, <<"t">>) THEN Panic(c, op)
           ELSE EndpointGet(c, <<"b","o","o","k","/">> \o symbol \o <<"/","R","0","?","l","e","n","=","2","5","0">>, op)

\* pub async fn request_trading_trades(&self, symbol, limit, start, end), up to
\* self.get(&url).await
request_trading_trades(c, symbol, limit, start, end) ==
    /\ pc[c] = "idle"
    /\ LET op == [name |-> "request_trading_trades", symbol |-> symbol, limit |-> limit,
                  start |-> start, end |-> end]
       IN  IF ~starts_with(symbol, <<"t">>) THEN Panic(c, op)
           ELSE EndpointGet(c, HistQuery(<<"t","r","a","d","e","s","/">> \o symbol \o <<"/","h","i","s","t","?","s","o","r","t","=","-","1">>,
                                         limit, start, end), op)

\* pub async fn request_trading_ticker(&self, symbol), up to self.get(&url).await
request_trading_ticker(c, symbol) ==
    /\ pc[c] = "idle"
    /\ LET op == [name |-> "request_trading_ticker", symbol |-> symbol]
       IN  IF ~starts_with(symbol, <<"t">>) THEN Panic(c, op)
           ELSE EndpointGet(c, <<"t","i","c","k","e","r","/">> \o symbol, op)

\* pub async fn request_trading_candles(&self, symbol, time_frame, limit, start,
\* end), up to self.get(&url).await
request_trading_candles(c, symbol, time_frame, limit, start, end) ==
    /\ pc[c] = "idle"
    /\ LET op == [name |-> "request_trading_candles", symbol |-> symbol,
                  time_frame |-> time_frame, limit |-> limit, start |-> start, end |-> end]
       IN  IF ~starts_with(symbol, <<"t">>) THEN Panic(c, op)
           ELSE EndpointGet(c, HistQuery(<<"c","a","n","d","l","e","s","/","t","r","a","d","e",":">> \o CandleTimeFrame_to_String(time_frame)
                                           \o <<":">> \o symbol \o <<"/","h","i","s","t","?","s","o","r","t","=","-","1">>,
                                         limit, start, end), op)

\* impl StatKey { pub fn as_str(&self) }
StatKey_as_str(key) ==
    CASE key = "PosSize"        -> <<"p","o","s",".","s","i","z","e">>
      [] key = "FundingSize"    -> <<"f","u","n","d","i","n","g",".","s","i","z","e">>
      [] key = "CreditsSize"    -> <<"c","r","e","d","i","t","s",".","s","i","z","e">>
      [] key = "CreditsSizeSym" -> <<"c","r","e","d","i","t","s",".","s","i","z","e",".","s","y","m">>
      [] key = "Vol1d"          -> <<"v","o","l",".","1","d">>
      [] key = "Vol7d"          -> <<"v","o","l",".","7","d">>
      [] key = "Vol30d"         -> <<"v","o","l",".","3","0","d">>
      [] key = "Vwap"           -> <<"v","w","a","p">>

StatKeys ==
    {"PosSize", "FundingSize", "CreditsSize", "CreditsSizeSym", "Vol1d", "Vol7d", "Vol30d",
     "Vwap"}

SidePairNotice ==
    <<"Q","u","e","r","y","i","n","g"," ","c","r","e","d","i","t","s",".","s","i","z","e",".","s","y","m"," ","w","i","t","h","o","u","t"," ","s","p","e","c","i","f","y","i","n","g"," ","s","i","d","e","_","p","a","i","r","."," ","D","e","f","a","u","l","t","i","n","g"," ","t","o"," ","t","B","T","C","U","S","D">>

\* the side of pos.size taken from the presence of use_short alone
pos_side_by_presence(use_short) == IF IsSome(use_short) THEN <<"s","h","o","r","t">> ELSE <<"l","o","n","g">>

\* match use_short { Some(true) => "short", Some(false) => "long", None => "long" }
pos_side(use_short) == IF IsSome(use_short) /\ use_short[2] THEN <<"s","h","o","r","t">> ELSE <<"l","o","n","g">>

\* pub async fn request_stat(&self, symbol, key, side_pair, use_short, limit, start,
\* end), up to self.get(&url).await
request_stat(c, symbol, key, side_pair, use_short, limit, start, end) ==
    /\ pc[c] = "idle"
    /\ LET op  == [name |-> "request_stat", symbol |-> symbol, key |-> key,
                   side_pair |-> side_pair, use_short |-> use_short, limit |-> limit,
                   start |-> start, end |-> end]
           url == <<"s","t","a","t","s","1","/">> \o StatKey_as_str(key)
           go(u, printed) ==
               EndpointGetPrinting(c, HistQuery(u \o <<"/","h","i","s","t","?","s","o","r","t","=","-","1">>, limit, start, end), op,
                                   printed)
       IN  IF key \in {"FundingSize", "CreditsSize"}
           THEN IF ~starts_with(symbol, <<"f">>) THEN Panic(c, op)
                ELSE go(url \o <<":","1","m",":">> \o symbol, <<>>)
           ELSE IF key = "CreditsSizeSym"
           THEN IF ~starts_with(symbol, <<"f">>) THEN Panic(c, op)
                ELSE IF IsSome(side_pair)
                     THEN go(url \o <<":","1","m",":">> \o symbol \o <<":">> \o side_pair[2], <<>>)
                     ELSE go(url \o <<":","1","m",":">> \o symbol \o <<":">> \o <<"t","B","T","C","U","S","D">>, <<SidePairNotice>>)
           ELSE IF key = "PosSize"
           THEN IF ~starts_with(symbol, <<"t">>) THEN Panic(c, op)
                ELSE go(url \o <<":","1","m",":">> \o symbol \o <<":">> \o pos_side(use_short), <<>>)
           ELSE IF key = "Vwap"
           THEN go(url \o <<":","1","d",":">> \o symbol, <<>>)
           ELSE go(url \o <<":","3","0","m",":","B","F","X">>, <<>>)

\* pub fn parse_ccy_from_symbol(symbol: &str) -> &str; Panics when &symbol[4..]
\* is out of range
parse_ccy_from_symbol(symbol) ==
    IF Len(symbol) = 0 THEN symbol
    ELSE IF symbol[1] = "f" THEN Tail_from(symbol, 2)
    ELSE IF symbol[1] = "t"
         THEN LET idx == Find(symbol, <<":">>)
              IN  IF idx # 0 THEN Tail_from(symbol, idx + 1)
                  ELSE IF Len(symbol) < 4 THEN Panics
                  ELSE Tail_from(symbol, 5)
    ELSE symbol

\* the JSON text of a string: quotes and backslashes escaped, between quotes
RECURSIVE json_escape(_)
json_escape(s) ==
    IF Len(s) = 0 THEN <<>>
    ELSE (IF Head(s) \in {"\"", "\\"} THEN <<"\\", Head(s)>> ELSE <<Head(s)>>)
         \o json_escape(Tail(s))

\* json!({"currency": ccy}).to_string()
currency_payload(ccy) == <<"{","\"","c","u","r","r","e","n","c","y","\"",":","\"">> \o json_escape(ccy) \o <<"\"","}">>

\* pub async fn cancel_funding_offer_all(&self, symbol), up to
\* self.post_with_payload(&url, payload).await
cancel_funding_offer_all(c, symbol) ==
    /\ pc[c] = "idle"
    /\ LET op  == [name |-> "cancel_funding_offer_all", symbol |-> symbol]
           ccy == parse_ccy_from_symbol(symbol)
       IN  IF ccy = Panics THEN Panic(c, op)
           ELSE EndpointPost(c, <<"a","u","t","h","/","w","/","f","u","n","d","i","n","g","/","o","f","f","e","r","/","c","a","n","c","e","l","/","a","l","l">>, currency_payload(ccy), op)

\* ------------------------------------------------------------------ inputs of the operations

Symbols ==
    {<<"f","U","S","D">>, <<"f","U","S","T">>, <<"t","B","T","C","U","S","D">>, <<"t","E","T","H",":","U","S","D","T">>, <<"t","T","E","S","T","B","T","C",":","T","E","S","T","U","S","D">>, <<"t","D","O","G","E","U","S","D">>, <<"B","T","C","U","S","D">>,
     <<"U","S","D">>, <<"t","B","T">>, <<"t">>, <<"f">>, <<>>}

CandleSymbols == {<<"f","U","S","D">>, <<"t","B","T","C","U","S","D">>}

Periods == 0..U8Max

CandleAggPeriods == {"A10", "A30", "A120", "Nil"}

TimeFrames == {"Min1", "Month1"}

Limits == {None, Some(25)}

Starts == {None, Some(1700000000)}

Ends == {None, Some(1700003600)}

SidePairs == {None, Some(<<"t","E","T","H","U","S","D">>)}

UseShorts == {None, Some(TRUE), Some(FALSE)}

\* the answers of the server to an operation: a result, or a terminal error
EndpointBodies == {<<"[","]">>, <<"[","\"","e","r","r","o","r","\"",","," ","1","1","0","1","0",","," ","\"","r","a","t","e","l","i","m","i","t",":"," ","e","r","r","o","r","\"","]">>}

\* the response of the one attempt of the operation of call c
EndpointAnswer(c) ==
    /\ \E b \in EndpointBodies : Receive(c, b)
    /\ UNCHANGED serverMax

\* one operation of the Client, called with any of the inputs above
NextEndpoints ==
    \/ \E s \in Symbols, p \in BookPrecisions : request_funding_book(1, s, p)
    \/ \E s \in Symbols : request_funding_book_raw(1, s)
    \/ \E s \in Symbols, l \in Limits, st \in Starts, e \in Ends :
          request_funding_trades(1, s, l, st, e)
    \/ \E s \in Symbols : request_funding_ticker(1, s)
    \/ \E s \in CandleSymbols, p \in Periods, a \in CandleAggPeriods, tf \in TimeFrames :
          request_funding_candles(1, s, p, a, tf, None, None, None)
    \/ \E s \in CandleSymbols, l \in Limits, st \in Starts, e \in Ends :
          request_funding_candles(1, s, 30, "A10", "Min1", l, st, e)
    \/ \E s \in Symbols, p \in BookPrecisions : request_trading_book(1, s, p)
    \/ \E s \in Symbols : request_trading_book_raw(1, s)
    \/ \E s \in Symbols, l \in Limits, st \in Starts, e \in Ends :
          request_trading_trades(1, s, l, st, e)
    \/ \E s \in Symbols : request_trading_ticker(1, s)
    \/ \E s \in Symbols, tf \in TimeFrames, l \in Limits, st \in Starts, e \in Ends :
          request_trading_candles(1, s, tf, l, st, e)
    \/ \E s \in Symbols, k \in StatKeys, sp \in SidePairs, us \in UseShorts,
          l \in Limits, st \in Starts, e \in Ends :
          request_stat(1, s, k, sp, us, l, st, e)
    \/ \E s \in Symbols : cancel_funding_offer_all(1, s)
    \/ EndpointAnswer(1)

SpecEndpoints == Init /\ [][NextEndpoints]_vars

\* ------------------------------------------------------------------ claims on the operations

\* call c runs the operation `name`
IsOp(c, name) == pc[c] # "idle" /\ "op" \in DOMAIN args[c] /\ args[c].op.name = name

AggregationOf == [A10 |-> 10, A30 |-> 30, A120 |-> 120]

FundingOnlyOps ==
    {"request_funding_book", "request_funding_book_raw", "request_funding_trades",
     "request_funding_ticker", "request_funding_candles"}

TradingOnlyOps ==
    {"request_trading_book", "request_trading_book_raw", "request_trading_trades",
     "request_trading_ticker", "request_trading_candles"}

\* the first character of symbol is the marker
HasMarker(symbol, marker) == Len(symbol) >= 1 /\ symbol[1] = marker

\* C15: a funding-only public operation called with a symbol that does not begin
\* with 'f', and a trading-only public operation called with a symbol that does
\* not begin with 't', fails with a precondition violation and sends no request.
C15_CategoryChecked ==
    \A c \in Calls :
        /\ (\E n \in FundingOnlyOps : IsOp(c, n)) /\ ~HasMarker(args[c].op.symbol, "f")
              => pc[c] = "panicked" /\ sent[c] = 0
        /\ (\E n \in TradingOnlyOps : IsOp(c, n)) /\ ~HasMarker(args[c].op.symbol, "t")
              => pc[c] = "panicked" /\ sent[c] = 0

StatKeyText ==
    [PosSize |-> <<"p","o","s",".","s","i","z","e">>, FundingSize |-> <<"f","u","n","d","i","n","g",".","s","i","z","e">>, CreditsSize |-> <<"c","r","e","d","i","t","s",".","s","i","z","e">>,
     CreditsSizeSym |-> <<"c","r","e","d","i","t","s",".","s","i","z","e",".","s","y","m">>, Vol1d |-> <<"v","o","l",".","1","d">>, Vol7d |-> <<"v","o","l",".","7","d">>,
     Vol30d |-> <<"v","o","l",".","3","0","d">>, Vwap |-> <<"v","w","a","p">>]

\* the segment the routing table of the statistics gives after the key
StatSegment(o) ==
    CASE o.key \in {"FundingSize", "CreditsSize"} -> <<":","1","m",":">> \o o.symbol
      [] o.key = "CreditsSizeSym" ->
            <<":","1","m",":">> \o o.symbol \o <<":">>
               \o (IF o.side_pair = None THEN <<"t","B","T","C","U","S","D">> ELSE o.side_pair[2])
      [] o.key = "PosSize" ->
            <<":","1","m",":">> \o o.symbol \o <<":">>
               \o (IF o.use_short = Some(TRUE) THEN <<"s","h","o","r","t">> ELSE <<"l","o","n","g">>)
      [] o.key = "Vwap" -> <<":","1","d",":">> \o o.symbol
      [] o.key \in {"Vol1d", "Vol7d", "Vol30d"} -> <<":","3","0","m",":","B","F","X">>

\* &limit=, &start=, &end=, each only when supplied, in that order
StatQuery(o) ==
    (IF o.limit = None THEN <<>> ELSE <<"&","l","i","m","i","t","=">> \o to_string(o.limit[2]))
    \o (IF o.start = None THEN <<>> ELSE <<"&","s","t","a","r","t","=">> \o to_string(o.start[2]))
    \o (IF o.end = None THEN <<>> ELSE <<"&","e","n","d","=">> \o to_string(o.end[2]))

\* the symbol is of the wrong category for the key
StatRejected(o) ==
    \/ o.key \in {"FundingSize", "CreditsSize", "CreditsSizeSym"} /\ ~HasMarker(o.symbol, "f")
    \/ o.key = "PosSize" /\ ~HasMarker(o.symbol, "t")

\* C16: request_stat builds stats1/<key><segment>/hist?sort=-1 followed by the
\* supplied ones of &limit=, &start=, &end=, with the segment of the routing
\* table; the pair of credits.size.sym defaults to tBTCUSD, with a printed notice
\* exactly when no pair is supplied; a symbol of the wrong category for the
\* three funding keys or for pos.size is rejected before any request is sent.
C16_StatRouting ==
    \A c \in Calls :
        IsOp(c, "request_stat") =>
            LET o == args[c].op
            IN  IF StatRejected(o)
                THEN pc[c] = "panicked" /\ sent[c] = 0
                ELSE /\ pc[c] # "panicked"
                     /\ sent[c] = 1
                     /\ args[c].url = <<"s","t","a","t","s","1","/">> \o StatKeyText[o.key] \o StatSegment(o)
                                        \o <<"/","h","i","s","t","?","s","o","r","t","=","-","1">> \o StatQuery(o)
                     /\ req[c].endpoint = BITFINEX_PUB_HOST \o <<"/">> \o args[c].url
                     /\ Len(stdout[c]) =
                          (IF o.key = "CreditsSizeSym" /\ o.side_pair = None THEN 1 ELSE 0)

\* C16 witness: credits.size.sym of fUSD asked with no pair: the default pair is
\* in the path and the notice was printed
C16_Witness ==
    \E c \in Calls :
        /\ IsOp(c, "request_stat")
        /\ args[c].op.key = "CreditsSizeSym"
        /\ args[c].op.side_pair = None
        /\ pc[c] = "returned"
        /\ req[c].endpoint =
             <<"h","t","t","p","s",":","/","/","a","p","i","-","p","u","b",".","b","i","t","f","i","n","e","x",".","c","o","m","/","v","2","/","s","t","a","t","s","1","/","c","r","e","d","i","t","s",".","s","i","z","e",".","s","y","m",":","1","m",":","f","U","S","D",":","t","B","T","C","U","S","D","/","h","i","s","t","?","s","o","r","t","=","-","1">>
        /\ stdout[c] = <<SidePairNotice>>

\* the currency the claim reads from a funding or trading symbol
CurrencyOf(symbol) ==
    IF HasMarker(symbol, "f") THEN SubSeq(symbol, 2, Len(symbol))
    ELSE IF \E i \in 1..Len(symbol) : symbol[i] = ":"
         THEN SubSeq(symbol, Min({i \in 1..Len(symbol) : symbol[i] = ":"}) + 1, Len(symbol))
    ELSE SubSeq(symbol, Max({1, Len(symbol) - 2}), Len(symbol))

\* C17: parse_ccy_from_symbol yields, for a funding symbol, the symbol without its
\* first character; for a trading symbol with ':', the text after the first ':';
\* for a trading symbol without ':', its last three characters; and
\* cancel_funding_offer_all sends exactly this value as the 'currency' of its body.
\* (Stated for trading symbols of four characters or more: 't' and a pair.)
C17_CurrencyOfSymbol ==
    \A c \in Calls :
        (IsOp(c, "cancel_funding_offer_all")
           /\ \/ HasMarker(args[c].op.symbol, "f")
              \/ HasMarker(args[c].op.symbol, "t") /\ Len(args[c].op.symbol) >= 4) =>
            /\ pc[c] # "panicked"
            /\ req[c].method = "post"
            /\ req[c].body = Some(<<"{","\"","c","u","r","r","e","n","c","y","\"",":","\"">> \o CurrencyOf(args[c].op.symbol) \o <<"\"","}">>)

\* ------------------------------------------------------------------ positional records (serde)

\* JSON values, as serde_json reads them
JNull == [t |-> "null"]

JBool(b) == [t |-> "bool", b |-> b]

JInt(n) == [t |-> "int", n |-> n]

JFloat(x) == [t |-> "float", x |-> x]

JStr(s) == [t |-> "str", s |-> s]

JArr(items) == [t |-> "array", items |-> items]

JObj(members) == [t |-> "object", members |-> members]

\* a JSON integer beyond the integers of the model, by its sign and decimal digits
JBig(neg, digits) == [t |-> "bigint", neg |-> neg, digits |-> digits]

\* Result<T, serde_json::Error>
DecodeOk(v) == [ok |-> TRUE, val |-> v]

DecodeErr(msg) == [ok |-> FALSE, err |-> msg]

\* a field of a struct: its name, how it is deserialized (its type, or the function
\* of #[serde(deserialize_with = "..")]) and whether it is #[serde(skip_serializing)]
Field(name, kind) == [name |-> name, kind |-> kind, skip_serializing |-> FALSE]

Placeholder(name, kind) == [name |-> name, kind |-> kind, skip_serializing |-> TRUE]

\* pub struct Wallet (client.rs 47-58): 7 positions
WalletSchema ==
    <<Field(<<"t","y","p">>, "String"),
      Field(<<"c","c","y">>, "String"),
      Field(<<"b","a","l","a","n","c","e">>, "f64"),
      Field(<<"u","n","s","e","t","t","l","e","d","_","a","m","o","u","n","t">>, "f64"),
      Field(<<"f","r","e","e">>, "f64"),
      Placeholder(<<"_","p","l","a","c","e","h","o","l","d","e","r","_","1">>, "Option<String>"),
      Placeholder(<<"_","p","l","a","c","e","h","o","l","d","e","r","_","2">>, "Option<String>")>>

\* pub struct Ledger (client.rs 61-78): 9 positions
LedgerSchema ==
    <<Field(<<"i","d">>, "u64"),
      Field(<<"c","c","y">>, "String"),
      Field(<<"w","a","l","l","e","t">>, "String"),
      Field(<<"t","i","m","e">>, "from_mts"),
      Placeholder(<<"_","p","l","a","c","e","h","o","l","d","e","r","_","1">>, "Option<String>"),
      Field(<<"a","m","o","u","n","t">>, "f64"),
      Field(<<"b","a","l","a","n","c","e">>, "f64"),
      Placeholder(<<"_","p","l","a","c","e","h","o","l","d","e","r","_","2">>, "Option<String>"),
      Field(<<"d","e","s","c","r","i","p","t","i","o","n">>, "Option<String>")>>

\* pub struct Permission (client.rs 195-201): 3 positions
PermissionSchema ==
    <<Field(<<"n","a","m","e">>, "String"),
      Field(<<"r","e","a","d">>, "int_to_bool"),
      Field(<<"w","r","i","t","e">>, "int_to_bool")>>

\* pub struct User (client.rs 81-192): 55 positions
UserSchema ==
    <<Field(<<"i","d">>, "u32"),
      Field(<<"e","m","a","i","l">>, "String"),
      Field(<<"n","a","m","e">>, "String"),
      Field(<<"c","r","e","a","t","e","d">>, "from_mts"),
      Field(<<"v","e","r","i","f","i","e","d">>, "int_to_bool"),
      Field(<<"v","e","r","i","f","i","c","a","t","i","o","n","_","l","e","v","e","l">>, "u8"),
      Placeholder(<<"_","p","l","a","c","e","h","o","l","d","e","r","_","1">>, "Option<String>"),
      Field(<<"t","i","m","e","z","o","n","e">>, "String"),
      Field(<<"l","o","c","a","l","e">>, "String"),
      Field(<<"c","o","m","p","a","n","y">>, "String"),
      Field(<<"e","m","a","i","l","_","v","e","r","i","f","i","e","d">>, "int_to_bool"),
      Placeholder(<<"_","p","l","a","c","e","h","o","l","d","e","r","_","2">>, "Option<String>"),
      Field(<<"s","u","b","a","c","c","o","u","n","t","_","t","y","p","e">>, "Option<String>"),
      Placeholder(<<"_","p","l","a","c","e","h","o","l","d","e","r","_","3">>, "Option<String>"),
      Field(<<"m","a","s","t","e","r","_","a","c","c","o","u","n","t","_","c","r","e","a","t","e","d">>, "Option<u64>"),
      Field(<<"g","r","o","u","p","_","i","d">>, "Option<u16>"),
      Field(<<"m","a","s","t","e","r","_","a","c","c","o","u","n","t","_","i","d">>, "Option<u32>"),
      Field(<<"i","n","h","e","r","i","t","_","m","a","s","t","e","r","_","a","c","c","o","u","n","t","_","v","e","r","i","f","i","c","a","t","i","o","n">>, "Option<u8>"),
      Field(<<"i","s","_","g","r","o","u","p","_","m","a","s","t","e","r">>, "int_to_bool"),
      Field(<<"g","r","o","u","p","_","w","i","t","h","d","r","a","w","_","e","n","a","b","l","e","d">>, "Option<u8>"),
      Placeholder(<<"_","p","l","a","c","e","h","o","l","d","e","r","_","4">>, "Option<String>"),
      Field(<<"p","p","t","_","e","n","a","b","l","e","d">>, "Option<String>"),
      Field(<<"m","e","r","c","h","a","n","t","_","e","n","a","b","l","e","d">>, "int_to_bool"),
      Field(<<"c","o","m","p","e","t","i","t","i","o","n","_","e","n","a","b","l","e","d">>, "Option<String>"),
      Placeholder(<<"_","p","l","a","c","e","h","o","l","d","e","r","_","5">>, "Option<String>"),
      Placeholder(<<"_","p","l","a","c","e","h","o","l","d","e","r","_","6">>, "Option<String>"),
      Field(<<"t","w","o","_","f","a","c","t","o","r","_","m","o","d","e","s">>, "Vec<String>"),
      Placeholder(<<"_","p","l","a","c","e","h","o","l","d","e","r","_","7">>, "Option<String>"),
      Field(<<"i","s","_","s","e","r","c","u","r","i","t","i","e","s","_","m","a","s","t","e","r">>, "int_to_bool"),
      Field(<<"s","e","c","u","r","i","t","i","e","s","_","e","n","a","b","l","e","d">>, "Option<u8>"),
      Field(<<"i","s","_","s","e","c","u","r","i","t","i","e","s","_","i","n","v","e","s","t","o","r","_","a","c","c","r","e","d","i","t","e","d">>, "Option<u8>"),
      Field(<<"i","s","_","s","e","c","u","r","i","t","i","e","s","_","e","l","_","s","a","l","v","a","d","o","r">>, "Option<u8>"),
      Placeholder(<<"_","p","l","a","c","e","h","o","l","d","e","r","_","8">>, "Option<String>"),
      Placeholder(<<"_","p","l","a","c","e","h","o","l","d","e","r","_","9">>, "Option<String>"),
      Placeholder(<<"_","p","l","a","c","e","h","o","l","d","e","r","_","1","0">>, "Option<u8>"),
      Placeholder(<<"_","p","l","a","c","e","h","o","l","d","e","r","_","1","1">>, "Option<String>"),
      Placeholder(<<"_","p","l","a","c","e","h","o","l","d","e","r","_","1","2">>, "Option<String>"),
      Placeholder(<<"_","p","l","a","c","e","h","o","l","d","e","r","_","1","3">>, "Option<String>"),
      Field(<<"a","l","l","o","w","_","d","i","s","a","b","l","e","_","c","t","x","s","w","i","t","c","h">>, "Option<u8>"),
      Field(<<"c","t","x","s","w","i","t","c","h","_","d","i","s","a","b","l","e","d">>, "int_to_bool"),
      Placeholder(<<"_","p","l","a","c","e","h","o","l","d","e","r","_","1","4">>, "Option<String>"),
      Placeholder(<<"_","p","l","a","c","e","h","o","l","d","e","r","_","1","5">>, "Option<String>"),
      Placeholder(<<"_","p","l","a","c","e","h","o","l","d","e","r","_","1","6">>, "Option<u8>"),
      Placeholder(<<"_","p","l","a","c","e","h","o","l","d","e","r","_","1","7">>, "Option<String>"),
      Field(<<"l","a","s","t","_","l","o","g","i","n">>, "DateTime<Local>"),
      Placeholder(<<"_","p","l","a","c","e","h","o","l","d","e","r","_","1","8">>, "Option<String>"),
      Placeholder(<<"_","p","l","a","c","e","h","o","l","d","e","r","_","1","9">>, "Option<String>"),
      Field(<<"v","e","r","i","f","i","c","a","t","i","o","n","_","l","e","v","e","l","_","s","u","b","m","i","t","t","e","d">>, "u8"),
      Placeholder(<<"_","p","l","a","c","e","h","o","l","d","e","r","_","2","0">>, "Option<String>"),
      Field(<<"c","o","m","p","_","c","o","u","n","t","r","i","e","s">>, "Vec<String>"),
      Field(<<"c","o","m","p","_","c","o","u","n","t","r","i","e","s","_","r","e","s","i","d">>, "Vec<String>"),
      Field(<<"c","o","m","p","l","_","a","c","c","o","u","n","t","_","t","y","p","e">>, "Option<String>"),
      Placeholder(<<"_","p","l","a","c","e","h","o","l","d","e","r","_","2","1">>, "Option<String>"),
      Placeholder(<<"_","p","l","a","c","e","h","o","l","d","e","r","_","2","2">>, "Option<String>"),
      Field(<<"i","s","_","m","e","r","c","h","a","n","t","_","e","n","t","e","r","p","r","i","s","e">>, "int_to_bool")>>

\* pub struct Candle (funding.rs 170-178): 6 positions
CandleSchema ==
    <<Field(<<"t","i","m","e">>, "from_mts"),
      Field(<<"o","p","e","n">>, "f64"),
      Field(<<"c","l","o","s","e">>, "f64"),
      Field(<<"h","i","g","h">>, "f64"),
      Field(<<"l","o","w">>, "f64"),
      Field(<<"v","o","l","u","m","e">>, "f64")>>

\* pub struct TradingOrder (trading.rs 154-209): 32 positions
TradingOrderSchema ==
    <<Field(<<"i","d">>, "u64"),
      Field(<<"g","r","o","u","p","_","i","d">>, "Option<u64>"),
      Field(<<"c","l","i","e","n","t","_","o","r","d","e","r","_","i","d">>, "u64"),
      Field(<<"s","y","m","b","o","l">>, "String"),
      Field(<<"c","r","e","a","t","e","d">>, "from_mts"),
      Field(<<"u","p","d","a","t","e","d">>, "from_mts"),
      Field(<<"a","m","o","u","n","t">>, "f64"),
      Field(<<"a","m","o","u","n","t","_","o","r","i","g">>, "f64"),
      Field(<<"o","r","d","e","r","_","t","y","p","e">>, "TradingOrderType"),
      Field(<<"t","y","p","e","_","p","r","e","v">>, "Option<TradingOrderType>"),
      Field(<<"m","t","s","_","t","i","m","e","_","i","n","_","f","o","r","c","e">>, "Option<u64>"),
      Placeholder(<<"_","p","l","a","c","e","h","o","l","d","e","r","_","1">>, "Option<String>"),
      Field(<<"f","l","a","g","s">>, "Option<u64>"),
      Field(<<"s","t","a","t","u","s">>, "String"),
      Placeholder(<<"_","p","l","a","c","e","h","o","l","d","e","r","_","2">>, "Option<String>"),
      Placeholder(<<"_","p","l","a","c","e","h","o","l","d","e","r","_","3">>, "Option<String>"),
      Field(<<"p","r","i","c","e">>, "f64"),
      Field(<<"p","r","i","c","e","_","a","v","g">>, "f64"),
      Field(<<"p","r","i","c","e","_","t","r","a","i","l","i","n","g">>, "f64"),
      Field(<<"p","r","i","c","e","_","a","u","x","_","l","i","m","i","t">>, "f64"),
      Placeholder(<<"_","p","l","a","c","e","h","o","l","d","e","r","_","4">>, "Option<String>"),
      Placeholder(<<"_","p","l","a","c","e","h","o","l","d","e","r","_","5">>, "Option<String>"),
      Placeholder(<<"_","p","l","a","c","e","h","o","l","d","e","r","_","6">>, "Option<String>"),
      Field(<<"n","o","t","i","f","y">>, "Option<u8>"),
      Field(<<"h","i","d","d","e","n">>, "Option<u8>"),
      Field(<<"p","l","a","c","e","d","_","i","d">>, "Option<u64>"),
      Placeholder(<<"_","p","l","a","c","e","h","o","l","d","e","r","_","7">>, "Option<String>"),
      Placeholder(<<"_","p","l","a","c","e","h","o","l","d","e","r","_","8">>, "Option<String>"),
      Field(<<"r","o","u","t","i","n","g">>, "String"),
      Placeholder(<<"_","p","l","a","c","e","h","o","l","d","e","r","_","9">>, "Option<String>"),
      Placeholder(<<"_","p","l","a","c","e","h","o","l","d","e","r","_","1","0">>, "Option<String>"),
      Field(<<"m","e","t","a">>, "Option<String>")>>

\* pub struct TradingOrderMultiResult (trading.rs 212-225): 8 positions
TradingOrderMultiResultSchema ==
    <<Field(<<"t","i","m","e">>, "from_mts"),
      Field(<<"n","o","t","i","_","t","y","p","e">>, "String"),
      Field(<<"m","e","s","s","a","g","e","_","i","d">>, "Option<u64>"),
      Placeholder(<<"_","p","l","a","c","e","h","o","l","d","e","r","_","1">>, "Option<String>"),
      Field(<<"o","r","d","e","r","s">>, "Vec<TradingOrder>"),
      Field(<<"c","o","d","e">>, "Option<u16>"),
      Field(<<"s","t","a","t","u","s">>, "String"),
      Field(<<"m","e","s","s","a","g","e">>, "Option<String>")>>

\* pub struct TradingOrderResult (trading.rs 228-241): 8 positions
TradingOrderResultSchema ==
    <<Field(<<"t","i","m","e">>, "from_mts"),
      Field(<<"n","o","t","i","_","t","y","p","e">>, "String"),
      Field(<<"m","e","s","s","a","g","e","_","i","d">>, "Option<u64>"),
      Placeholder(<<"_","p","l","a","c","e","h","o","l","d","e","r","_","1">>, "Option<String>"),
      Field(<<"o","r","d","e","r">>, "TradingOrder"),
      Field(<<"c","o","d","e">>, "Option<u16>"),
      Field(<<"s","t","a","t","u","s">>, "String"),
      Field(<<"m","e","s","s","a","g","e">>, "Option<String>")>>

\* pub struct FundingOffer (funding.rs 281-323): 21 positions
FundingOfferSchema ==
    <<Field(<<"i","d">>, "u64"),
      Field(<<"s","y","m","b","o","l">>, "String"),
      Field(<<"c","r","e","a","t","e","d">>, "from_mts"),
      Field(<<"u","p","d","a","t","e","d">>, "from_mts"),
      Field(<<"a","m","o","u","n","t">>, "f64"),
      Field(<<"a","m","o","u","n","t","_","o","r","i">>, "f64"),
      Field(<<"r","a","t","e","_","t","y","p","e">>, "String"),
      Placeholder(<<"_","p","l","a","c","e","h","o","l","d","e","r","_","1">>, "Option<String>"),
      Placeholder(<<"_","p","l","a","c","e","h","o","l","d","e","r","_","2">>, "Option<String>"),
      Placeholder(<<"_","f","l","a","g","s">>, "Option<i8>"),
      Field(<<"s","t","a","t","u","s">>, "String"),
      Placeholder(<<"_","p","l","a","c","e","h","o","l","d","e","r","_","3">>, "Option<String>"),
      Placeholder(<<"_","p","l","a","c","e","h","o","l","d","e","r","_","4">>, "Option<String>"),
      Placeholder(<<"_","p","l","a","c","e","h","o","l","d","e","r","_","5">>, "Option<String>"),
      Field(<<"r","a","t","e">>, "f64"),
      Field(<<"p","e","r","i","o","d">>, "u8"),
      Field(<<"n","o","t","i","f","y">>, "Option<u8>"),
      Field(<<"h","i","d","d","e","n">>, "Option<u8>"),
      Placeholder(<<"_","p","l","a","c","e","h","o","l","d","e","r","_","6">>, "Option<String>"),
      Field(<<"r","e","n","e","w">>, "Option<u8>"),
      Placeholder(<<"_","p","l","a","c","e","h","o","l","d","e","r","_","7">>, "Option<String>")>>

\* pub struct FundingOfferResult (funding.rs 326-339): 8 positions
FundingOfferResultSchema ==
    <<Field(<<"c","r","e","a","t","e","d">>, "from_mts"),
      Field(<<"e","v","e","n","t","_","t","y","p","e">>, "String"),
      Field(<<"m","e","s","s","a","g","e","_","i","d">>, "Option<u64>"),
      Placeholder(<<"_","p","l","a","c","e","h","o","l","d","e","r","_","1">>, "Option<String>"),
      Field(<<"o","f","f","e","r">>, "FundingOffer"),
      Field(<<"c","o","d","e">>, "Option<u16>"),
      Field(<<"s","t","a","t","u","s">>, "String"),
      Field(<<"m","e","s","s","a","g","e">>, "Option<String>")>>

SchemaOf(type) ==
    CASE type = "Wallet"       -> WalletSchema
      [] type = "Ledger"       -> LedgerSchema
      [] type = "Permission"   -> PermissionSchema
      [] type = "User"         -> UserSchema
      [] type = "Candle"       -> CandleSchema
      [] type = "TradingOrder" -> TradingOrderSchema
      [] type = "TradingOrderMultiResult" -> TradingOrderMultiResultSchema
      [] type = "TradingOrderResult"      -> TradingOrderResultSchema
      [] type = "FundingOffer"            -> FundingOfferSchema
      [] type = "FundingOfferResult"      -> FundingOfferResultSchema

\* ------------------------------------------------------------------ TradingOrderType

\* pub enum TradingOrderType: the variants, in the order of their declaration
TradingOrderType ==
    <<"Limit", "ExchangeLimit", "Market", "ExchangeMarket", "Stop", "ExchangeStop",
      "StopLimit", "ExchangeStopLimit", "TrailingStop", "ExchangeTrailingStop",
      "Fok", "ExchangeFok", "Ioc", "ExchangeIoc">>

\* the identifiers of the variants, the names #[derive(Deserialize, Serialize)] uses
VariantIdent ==
    <<<<"L","i","m","i","t">>, <<"E","x","c","h","a","n","g","e","L","i","m","i","t">>, <<"M","a","r","k","e","t">>, <<"E","x","c","h","a","n","g","e","M","a","r","k","e","t">>, <<"S","t","o","p">>, <<"E","x","c","h","a","n","g","e","S","t","o","p">>,
      <<"S","t","o","p","L","i","m","i","t">>, <<"E","x","c","h","a","n","g","e","S","t","o","p","L","i","m","i","t">>, <<"T","r","a","i","l","i","n","g","S","t","o","p">>, <<"E","x","c","h","a","n","g","e","T","r","a","i","l","i","n","g","S","t","o","p">>,
      <<"F","o","k">>, <<"E","x","c","h","a","n","g","e","F","o","k">>, <<"I","o","c">>, <<"E","x","c","h","a","n","g","e","I","o","c">>>>

\* the literals of the match arms of From<&str> and of Display, variant by variant
OrderTypeLiteral ==
    <<<<"L","I","M","I","T">>, <<"E","X","C","H","A","N","G","E"," ","L","I","M","I","T">>, <<"M","A","R","K","E","T">>, <<"E","X","C","H","A","N","G","E"," ","M","A","R","K","E","T">>, <<"S","T","O","P">>, <<"E","X","C","H","A","N","G","E"," ","S","T","O","P">>,
      <<"S","T","O","P"," ","L","I","M","I","T">>, <<"E","X","C","H","A","N","G","E"," ","S","T","O","P"," ","L","I","M","I","T">>, <<"T","R","A","I","L","I","N","G"," ","S","T","O","P">>, <<"E","X","C","H","A","N","G","E"," ","T","R","A","I","L","I","N","G"," ","S","T","O","P">>,
      <<"F","O","K">>, <<"E","X","C","H","A","N","G","E"," ","F","O","K">>, <<"I","O","C">>, <<"E","X","C","H","A","N","G","E"," ","I","O","C">>>>

LowerCase == <<"a","b","c","d","e","f","g","h","i","j","k","l","m","n","o","p","q","r","s","t","u","v","w","x","y","z">>

UpperCase == <<"A","B","C","D","E","F","G","H","I","J","K","L","M","N","O","P","Q","R","S","T","U","V","W","X","Y","Z">>

\* str::to_uppercase, on ASCII text
to_uppercase(s) ==
    [i \in 1..Len(s) |->
        IF \E k \in 1..Len(LowerCase) : LowerCase[k] = s[i]
        THEN UpperCase[CHOOSE k \in 1..Len(LowerCase) : LowerCase[k] = s[i]]
        ELSE s[i]]

RECURSIVE replace(_, _, _)
\* str::replace(from, to) for a pattern of one character
replace(s, from, to) ==
    IF s = <<>> THEN <<>>
    ELSE (IF Head(s) = from THEN to ELSE <<Head(s)>>) \o replace(Tail(s), from, to)

\* impl From<&str> for TradingOrderType: value.to_uppercase().replace("-", "")
\* matched against the literals, `_ => TradingOrderType::Limit`
TradingOrderType_from(value) ==
    LET token == replace(to_uppercase(value), "-", <<>>)
    IN  IF \E k \in 1..Len(OrderTypeLiteral) : OrderTypeLiteral[k] = token
        THEN TradingOrderType[CHOOSE k \in 1..Len(OrderTypeLiteral) : OrderTypeLiteral[k] = token]
        ELSE "Limit"

\* impl std::fmt::Display for TradingOrderType
TradingOrderType_to_string(order_type) ==
    OrderTypeLiteral[CHOOSE k \in 1..Len(TradingOrderType) : TradingOrderType[k] = order_type]

\* #[derive(Deserialize)] on the enum: a JSON string naming a variant by its
\* identifier, or an object of one member keyed by it; any other string is an
\* unknown variant
TradingOrderType_deserialize(value) ==
    LET named(text) == {k \in 1..Len(VariantIdent) : VariantIdent[k] = text}
    IN  CASE value.t = "str" ->
                IF named(value.s) # {} THEN DecodeOk(TradingOrderType[Min(named(value.s))])
                ELSE DecodeErr("unknown variant")
          [] value.t = "object" ->
                IF /\ Len(value.members) = 1
                   /\ named(value.members[1][1]) # {}
                   /\ value.members[1][2] = JNull
                THEN DecodeOk(TradingOrderType[Min(named(value.members[1][1]))])
                ELSE DecodeErr("invalid value")
          [] OTHER -> DecodeErr("invalid type")

\* ------------------------------------------------------------------ field decoders

\* digits a and b without leading zeros: the number a is at most the number b
DigitsLeq(a, b) ==
    \/ Len(a) < Len(b)
    \/ /\ Len(a) = Len(b)
       /\ \/ a = b
          \/ \E i \in 1..Len(a) :
                /\ DigitValue(a[i]) < DigitValue(b[i])
                /\ \A j \in 1..(i - 1) : a[j] = b[j]

\* i64::MIN and i64::MAX, by their digits
I64MinDigits == <<"9","2","2","3","3","7","2","0","3","6","8","5","4","7","7","5","8","0","8">>

I64MaxDigits == <<"9","2","2","3","3","7","2","0","3","6","8","5","4","7","7","5","8","0","7">>

\* u64::MAX, by its digits
U64MaxDigits == <<"1","8","4","4","6","7","4","4","0","7","3","7","0","9","5","5","1","6","1","5">>

\* the milliseconds of -262143-01-01T00:00:00 and of +262142-12-31T23:59:59.999,
\* the first and the last instant DateTime::from_timestamp_millis yields, by
\* their digits
MtsMinDigits == <<"8","3","3","4","6","0","1","3","1","5","2","0","0","0","0","0">>

MtsMaxDigits == <<"8","2","1","0","2","6","6","8","7","6","7","9","9","9","9","9">>

\* every integer other than 0 read as true
int_to_bool_truthy(value) ==
    CASE value.t = "bool" -> DecodeOk(value.b)
      [] value.t = "int"  -> DecodeOk(value.n # 0)
      [] value.t = "str"  ->
            IF value.s = <<"t","r","u","e">> THEN DecodeOk(TRUE)
            ELSE IF value.s = <<"f","a","l","s","e">> THEN DecodeOk(FALSE)
            ELSE DecodeErr("Expected 'true' or 'false' for boolean field")
      [] OTHER -> DecodeErr("invalid type")

\* pub fn int_to_bool: deserialize_any(IntOrBoolVisitor); a value the visitor has
\* no visit_ method for is an "invalid type" error
int_to_bool(value) ==
    CASE value.t = "bool" -> DecodeOk(value.b)
      [] value.t = "int"  ->
            IF value.n = 0 THEN DecodeOk(FALSE)
            ELSE IF value.n = 1 THEN DecodeOk(TRUE)
            ELSE DecodeErr("Expected 0 or 1 for boolean field")
      [] value.t = "str"  ->
            IF value.s = <<"t","r","u","e">> THEN DecodeOk(TRUE)
            ELSE IF value.s = <<"f","a","l","s","e">> THEN DecodeOk(FALSE)
            ELSE DecodeErr("Expected 'true' or 'false' for boolean field")
      [] OTHER -> DecodeErr("invalid type")

\* pub fn from_mts: i64::deserialize, then DateTime::from_timestamp_millis, None
\* outside the range of the calendar; with_timezone(&Local) keeps the instant
from_mts(value) ==
    CASE value.t = "int" -> DecodeOk([mts |-> value.n])
      [] value.t = "bigint" ->
            IF ~DigitsLeq(value.digits, IF value.neg THEN I64MinDigits ELSE I64MaxDigits)
            THEN DecodeErr("invalid value")
            ELSE IF ~DigitsLeq(value.digits, IF value.neg THEN MtsMinDigits ELSE MtsMaxDigits)
            THEN DecodeErr("Failed to parse")
            ELSE DecodeOk([neg |-> value.neg, mts_digits |-> value.digits])
      [] OTHER -> DecodeErr("invalid type")

\* the largest value of an unsigned integer type, as far as the integers of the
\* model reach
UnsignedMax(kind) ==
    CASE kind = "u8"  -> U8Max
      [] kind = "u16" -> 65535
      [] OTHER        -> 2147483647

\* texts chrono reads as an RFC 3339 date and time
Rfc3339Texts == {<<"2","0","2","4","-","0","1","-","0","1","T","0","0",":","0","0",":","0","0","Z">>}

\* the types with #[derive(Deserialize)] that have a schema
StructKinds ==
    {"Wallet", "Ledger", "Permission", "User", "Candle", "TradingOrder", "FundingOffer",
     "FundingOfferResult", "TradingOrderResult", "TradingOrderMultiResult"}

\* T of Vec<T>
VecInner(kind) ==
    CASE kind = "Vec<String>"       -> "String"
      [] kind = "Vec<Wallet>"       -> "Wallet"
      [] kind = "Vec<TradingOrder>" -> "TradingOrder"

\* T of Option<T>
OptionInner(kind) ==
    CASE kind = "Option<String>" -> "String"
      [] kind = "Option<u64>"    -> "u64"
      [] kind = "Option<u32>"    -> "u32"
      [] kind = "Option<u16>"    -> "u16"
      [] kind = "Option<u8>"     -> "u8"
      [] kind = "Option<i8>"     -> "i8"
      [] kind = "Option<TradingOrderType>" -> "TradingOrderType"

OptionKinds ==
    {"Option<String>", "Option<u64>", "Option<u32>", "Option<u16>", "Option<u8>",
     "Option<i8>", "Option<TradingOrderType>"}

RECURSIVE deserialize_plain(_, _)

RECURSIVE visit_seq(_, _)

RECURSIVE visit_map(_, _)

\* <T as Deserialize>::deserialize for the types of the fields
deserialize_plain(kind, value) ==
    CASE kind = "String" ->
            IF value.t = "str" THEN DecodeOk(value.s) ELSE DecodeErr("invalid type")
      [] kind = "f64" ->
            IF value.t \in {"int", "bigint", "float"} THEN DecodeOk(value)
            ELSE DecodeErr("invalid type")
      [] kind \in {"u8", "u16", "u32", "u64"} ->
            IF value.t = "bigint"
            THEN IF kind = "u64" /\ ~value.neg /\ DigitsLeq(value.digits, U64MaxDigits)
                 THEN DecodeOk(value.digits)
                 ELSE DecodeErr("invalid value")
            ELSE IF value.t # "int" THEN DecodeErr("invalid type")
            ELSE IF value.n < 0 \/ value.n > UnsignedMax(kind) THEN DecodeErr("invalid value")
            ELSE DecodeOk(value.n)
      [] kind = "i8" ->
            IF value.t = "bigint" THEN DecodeErr("invalid value")
            ELSE IF value.t # "int" THEN DecodeErr("invalid type")
            ELSE IF value.n < -128 \/ value.n > 127 THEN DecodeErr("invalid value")
            ELSE DecodeOk(value.n)
      [] kind = "DateTime<Local>" ->
            IF value.t # "str" THEN DecodeErr("invalid type")
            ELSE IF value.s \in Rfc3339Texts THEN DecodeOk([rfc3339 |-> value.s])
            ELSE DecodeErr("invalid value")
      [] kind = "TradingOrderType" -> TradingOrderType_deserialize(value)
      [] kind \in {"Vec<String>", "Vec<Wallet>", "Vec<TradingOrder>"} ->
            IF value.t # "array" THEN DecodeErr("invalid type")
            ELSE LET rs  == [k \in DOMAIN value.items |->
                               deserialize_plain(VecInner(kind), value.items[k])]
                     bad == {k \in DOMAIN rs : ~rs[k].ok}
                 IN  IF bad # {} THEN rs[Min(bad)]
                     ELSE DecodeOk([k \in DOMAIN rs |-> rs[k].val])
      [] kind \in StructKinds ->
            CASE value.t = "array"  -> visit_seq(SchemaOf(kind), value.items)
              [] value.t = "object" -> visit_map(SchemaOf(kind), value.members)
              [] OTHER              -> DecodeErr("invalid type")

\* the deserialization of one field
deserialize_field(kind, value) ==
    CASE kind = "int_to_bool" -> int_to_bool(value)
      [] kind = "from_mts"    -> from_mts(value)
      [] kind \in OptionKinds ->
            IF value.t = "null" THEN DecodeOk(None)
            ELSE LET inner == deserialize_plain(OptionInner(kind), value)
                 IN  IF inner.ok THEN DecodeOk(Some(inner.val)) ELSE inner
      [] OTHER -> deserialize_plain(kind, value)

\* elements after the last field are ignored
visit_seq_ignoring_extra(schema, items) ==
    LET bad == {i \in 1..Len(schema) :
                  i > Len(items) \/ ~deserialize_field(schema[i].kind, items[i]).ok}
    IN  IF bad # {} THEN DecodeErr("field")
        ELSE DecodeOk([n \in {schema[i].name : i \in 1..Len(schema)} |->
                        LET i == CHOOSE k \in 1..Len(schema) : schema[k].name = n
                        IN  deserialize_field(schema[i].kind, items[i]).val])

\* #[derive(Deserialize)] on a struct read from a JSON array: visit_seq takes one
\* element per field, in order (a missing one is invalid_length, a field that
\* fails fails the record), and serde_json's end_seq rejects elements left over
visit_seq(schema, items) ==
    LET bad == {i \in 1..Len(schema) :
                  i > Len(items) \/ ~deserialize_field(schema[i].kind, items[i]).ok}
    IN  IF bad # {}
        THEN IF Min(bad) > Len(items) THEN DecodeErr("invalid length")
             ELSE deserialize_field(schema[Min(bad)].kind, items[Min(bad)])
        ELSE IF Len(items) > Len(schema) THEN DecodeErr("trailing characters")
        ELSE DecodeOk([n \in {schema[i].name : i \in 1..Len(schema)} |->
                        LET i == CHOOSE k \in 1..Len(schema) : schema[k].name = n
                        IN  deserialize_field(schema[i].kind, items[i]).val])

\* #[derive(Deserialize)] on a struct read from a JSON object: visit_map takes the
\* members by key, ignores a key that names no field, rejects a key given twice,
\* and a field without a member is None when it is a plain Option and a
\* missing-field error otherwise
visit_map(schema, members) ==
    LET at(n)   == {k \in DOMAIN members : members[k][1] = n}
        fields  == 1..Len(schema)
        twice   == {i \in fields : Cardinality(at(schema[i].name)) > 1}
        missing == {i \in fields : at(schema[i].name) = {} /\ schema[i].kind \notin OptionKinds}
        read(i) == IF at(schema[i].name) = {} THEN DecodeOk(None)
                   ELSE deserialize_field(schema[i].kind, members[Min(at(schema[i].name))][2])
        bad     == {i \in fields \ missing : ~read(i).ok}
    IN  IF twice # {} THEN DecodeErr("duplicate field")
        ELSE IF bad # {} THEN read(Min(bad))
        ELSE IF missing # {} THEN DecodeErr("missing field")
        ELSE DecodeOk([n \in {schema[i].name : i \in fields} |->
                        read(CHOOSE k \in fields : schema[k].name = n).val])

\* #[derive(Serialize)]: the fields not marked skip_serializing, by name
serialize(schema, record) ==
    [n \in {schema[i].name : i \in {k \in 1..Len(schema) : ~schema[k].skip_serializing}} |->
        record[n]]

\* serde_json::from_str::<T>(..) of a text whose JSON value is the array `value`
from_str(type, value) ==
    /\ decoded = NoDecode
    /\ decoded' = [type |-> type, value |-> value,
                   result |-> visit_seq(SchemaOf(type), value.items)]
    /\ UNCHANGED <<clock, api_key, api_secret, pc, args, attempt, req, prevReq, builtAt,
                   outcome, body, wake, result, sent, fails, serverMax, stdout,
                   returned>>

\* ------------------------------------------------------------------ inputs of the decoders

RecordTypes == {"Wallet", "Ledger", "Permission", "User", "Candle", "TradingOrder"}

\* a value the field of this kind decodes from
ValidValue(kind) ==
    CASE kind = "String"          -> JStr(<<"U","S","D">>)
      [] kind = "f64"             -> JFloat(<<"1",".","5">>)
      [] kind \in {"u8", "u16", "u32", "u64"} -> JInt(1)
      [] kind = "int_to_bool"     -> JInt(1)
      [] kind = "from_mts"        -> JInt(1700000000)
      [] kind = "DateTime<Local>" -> JStr(<<"2","0","2","4","-","0","1","-","0","1","T","0","0",":","0","0",":","0","0","Z">>)
      [] kind = "Vec<String>"     -> JArr(<<JStr(<<"o","t","p">>)>>)
      [] kind = "TradingOrderType" -> JStr(<<"E","x","c","h","a","n","g","e","L","i","m","i","t">>)
      [] OTHER                    -> JNull

\* an array the record decodes from: null at every optional and reserved position,
\* the integer 1 at every boolean position
ValidArray(type) == [i \in 1..Len(SchemaOf(type)) |-> ValidValue(SchemaOf(type)[i].kind)]

\* JSON values of every type
JsonSamples ==
    {JNull, JBool(TRUE), JBool(FALSE), JInt(0), JInt(1), JInt(2), JInt(-1), JFloat(<<"1",".","0">>),
     JStr(<<"t","r","u","e">>), JStr(<<"f","a","l","s","e">>), JStr(<<"y","e","s">>), JStr(<<"1">>), JStr(<<>>), JArr(<<>>),
     JArr(<<JInt(1)>>), JObj(<<>>), JInt(1700000000), JBig(FALSE, <<"1","7","0","0","0","0","0","0","0","0","0","0","0">>),
     JBig(FALSE, <<"9","0","0","0","0","0","0","0","0","0","0","0","0","0","0","0">>), JBig(TRUE, <<"9","0","0","0","0","0","0","0","0","0","0","0","0","0","0","0">>),
     JBig(FALSE, I64MaxDigits), JBig(FALSE, <<"1","8","4","4","6","7","4","4","0","7","3","7","0","9","5","5","1","6","1","6">>),
     JStr(<<"E","X","C","H","A","N","G","E"," ","L","I","M","I","T">>), JStr(<<"E","x","c","h","a","n","g","e","L","i","m","i","t">>), JStr(<<"L","i","m","i","t">>), JStr(<<"E","X","C","H","A","N","G","E"," ","T","W","A","P">>)}

\* the positions of the schema that are placeholders
PlaceholderPositions(type) ==
    {i \in 1..Len(SchemaOf(type)) : SchemaOf(type)[i].skip_serializing}

\* the arrays handed to from_str::<type>: the valid array with one position
\* replaced, with two placeholders replaced, cut short, or extended
DecodeInputs(type) ==
    LET base == ValidArray(type)
        n    == Len(base)
    IN  {[base EXCEPT ![i] = v] : i \in 1..n, v \in JsonSamples}
        \cup {[base EXCEPT ![i] = v, ![j] = w] :
                 i \in PlaceholderPositions(type) \cap 1..8,
                 j \in PlaceholderPositions(type) \cap 1..8,
                 v \in {JNull, JStr(<<"x">>), JInt(1)}, w \in {JNull, JStr(<<"x">>), JObj(<<>>)}}
        \cup {SubSeq(base, 1, k) : k \in 0..n}
        \cup {base \o <<v>> : v \in JsonSamples}
        \cup {base \o <<JNull, JNull>>}

\* a response is decoded into one of the record types
NextDecode == \E type \in RecordTypes : \E items \in DecodeInputs(type) : from_str(type, JArr(items))

SpecDecode == Init /\ [][NextDecode]_vars

\* ------------------------------------------------------------------ claims on the decoders

\* a from_str has run
Decoded == decoded.type # "none"

DecodedSchema == SchemaOf(decoded.type)

DecodedItems == decoded.value.items

\* every position of the array other than position i holds a value its field
\* decodes from
ValidBut(i) ==
    /\ Len(DecodedItems) = Len(DecodedSchema)
    /\ \A j \in 1..Len(DecodedSchema) :
          j # i => deserialize_field(DecodedSchema[j].kind, DecodedItems[j]).ok

\* C18: a value at a reserved position is accepted whatever its JSON type and is
\* absent from the serialized record: an array of the schema length whose
\* non-reserved positions are valid decodes for every choice of reserved values.
C18_ReservedAnyType ==
    (/\ Decoded
     /\ Len(DecodedItems) = Len(DecodedSchema)
     /\ \A i \in 1..Len(DecodedSchema) :
           ~DecodedSchema[i].skip_serializing =>
               deserialize_field(DecodedSchema[i].kind, DecodedItems[i]).ok)
    => /\ decoded.result.ok
       /\ \A i \in 1..Len(DecodedSchema) :
             DecodedSchema[i].skip_serializing =>
                 DecodedSchema[i].name
                    \notin DOMAIN serialize(DecodedSchema, decoded.result.val)

\* C19: an array whose length differs from the number of positions of the schema
\* fails to decode and yields no record; an array of the schema length with null
\* at its reserved positions and the integer 1 at a boolean position decodes with
\* that boolean field true.
C19_ArityChecked ==
    Decoded =>
        /\ Len(DecodedItems) # Len(DecodedSchema) =>
              ~decoded.result.ok /\ "val" \notin DOMAIN decoded.result
        /\ \A i \in 1..Len(DecodedSchema) :
              (/\ DecodedSchema[i].kind = "int_to_bool"
               /\ ValidBut(i)
               /\ DecodedItems[i] = JInt(1)
               /\ \A j \in 1..Len(DecodedSchema) :
                     DecodedSchema[j].skip_serializing => DecodedItems[j] = JNull)
              => /\ decoded.result.ok
                 /\ decoded.result.val[DecodedSchema[i].name] = TRUE

\* C19 witness: a User array of the schema length, null at the reserved positions
\* and 1 at the boolean ones, decoded with verified = true
C19_Witness ==
    /\ Decoded
    /\ decoded.type = "User"
    /\ Len(DecodedItems) = 55
    /\ DecodedItems[5] = JInt(1)
    /\ DecodedItems[7] = JNull
    /\ decoded.result.ok
    /\ decoded.result.val[<<"v","e","r","i","f","i","e","d">>] = TRUE

\* C20: a field decoded with int_to_bool is true from JSON true, 1 or "true", false
\* from JSON false, 0 or "false", and a decode error for every other value.
C20_BoolCoercion ==
    Decoded =>
        \A i \in 1..Len(DecodedSchema) :
            (DecodedSchema[i].kind = "int_to_bool" /\ ValidBut(i)) =>
                IF DecodedItems[i] \in {JBool(TRUE), JInt(1), JStr(<<"t","r","u","e">>)}
                THEN decoded.result.ok /\ decoded.result.val[DecodedSchema[i].name] = TRUE
                ELSE IF DecodedItems[i] \in {JBool(FALSE), JInt(0), JStr(<<"f","a","l","s","e">>)}
                THEN decoded.result.ok /\ decoded.result.val[DecodedSchema[i].name] = FALSE
                ELSE ~decoded.result.ok

\* C20 witness: the read flag of a Permission decoded from the string "true"
C20_Witness ==
    /\ Decoded
    /\ decoded.type = "Permission"
    /\ Len(DecodedItems) = 3
    /\ DecodedItems[2] = JStr(<<"t","r","u","e">>)
    /\ decoded.result.ok
    /\ decoded.result.val[<<"r","e","a","d">>] = TRUE


\* ------------------------------------------------------------------ claims on time and enumerated fields

\* a field whose Rust type is DateTime<Local>, with or without deserialize_with
TimeField(f) == f.kind \in {"from_mts", "DateTime<Local>"}

\* the JSON integer is a count of milliseconds DateTime::from_timestamp_millis
\* has an instant for
MillisInRange(value) ==
    \/ value.t = "int"
    \/ /\ value.t = "bigint"
       /\ DigitsLeq(value.digits, IF value.neg THEN MtsMinDigits ELSE MtsMaxDigits)

\* the instant a count of milliseconds stands for
InstantOf(value) ==
    IF value.t = "int" THEN [mts |-> value.n]
    ELSE [neg |-> value.neg, mts_digits |-> value.digits]

\* C21: every time field of every record decodes from an integer count of
\* milliseconds since the epoch to the timestamp of that instant, and the decode
\* fails when the integer is outside the representable range.
C21_TimeFromMillis ==
    Decoded =>
        \A i \in 1..Len(DecodedSchema) :
            (/\ TimeField(DecodedSchema[i])
             /\ ValidBut(i)
             /\ DecodedItems[i].t \in {"int", "bigint"})
            => IF MillisInRange(DecodedItems[i])
               THEN /\ decoded.result.ok
                    /\ decoded.result.val[DecodedSchema[i].name] = InstantOf(DecodedItems[i])
               ELSE ~decoded.result.ok

\* a field whose Rust type is the enumeration of order types
EnumField(f) == f.kind \in {"TradingOrderType", "Option<TradingOrderType>"}

\* the value the closed mapping of order types gives a field for a wire token
MappedOrderType(f, token) ==
    IF f.kind = "Option<TradingOrderType>" THEN Some(TradingOrderType_from(token))
    ELSE TradingOrderType_from(token)

\* C22: an enumerated field (TradingOrder.order_type, type_prev) decodes from the
\* wire string token through the closed mapping of order types, "EXCHANGE LIMIT"
\* giving ExchangeLimit, and a token the mapping does not know gives the default
\* variant instead of failing the decode of the record.
C22_OrderTypeDecoded ==
    Decoded =>
        \A i \in 1..Len(DecodedSchema) :
            (/\ EnumField(DecodedSchema[i])
             /\ ValidBut(i)
             /\ DecodedItems[i].t = "str")
            => /\ decoded.result.ok
               /\ decoded.result.val[DecodedSchema[i].name]
                     = MappedOrderType(DecodedSchema[i], DecodedItems[i].s)

\* ------------------------------------------------------------------ serde_json: text to value

WhiteSpace == {" ", "\n", "\t", "\r"}

RECURSIVE skip_ws(_, _)
\* the first position from i on that holds no white space
skip_ws(s, i) == IF i <= Len(s) /\ s[i] \in WhiteSpace THEN skip_ws(s, i + 1) ELSE i

IsDigit(ch) == \E k \in 1..Len(Digits) : Digits[k] = ch

RECURSIVE digits_end(_, _)
\* the first position from i on that holds no digit
digits_end(s, i) == IF i <= Len(s) /\ IsDigit(s[i]) THEN digits_end(s, i + 1) ELSE i

ParseErr == [ok |-> FALSE]

Parsed(v, next) == [ok |-> TRUE, val |-> v, next |-> next]

\* the largest integer the model holds as a number
ModelIntMaxDigits == <<"2","1","4","7","4","8","3","6","4","7">>

\* a number without exponent at position i: an integer, or a number with a fraction
parse_number(s, i) ==
    LET neg    == s[i] = "-"
        d0     == IF neg THEN i + 1 ELSE i
        d1     == digits_end(s, d0)
        frac   == d1 <= Len(s) /\ s[d1] = "."
        f1     == IF frac THEN digits_end(s, d1 + 1) ELSE d1
        digits == SubSeq(s, d0, d1 - 1)
    IN  IF d1 = d0 THEN ParseErr
        ELSE IF Len(digits) > 1 /\ digits[1] = "0" THEN ParseErr
        ELSE IF frac
        THEN IF f1 = d1 + 1 THEN ParseErr ELSE Parsed(JFloat(SubSeq(s, i, f1 - 1)), f1)
        ELSE IF neg /\ digits = <<"0">> THEN Parsed(JFloat(<<"-","0">>), d1)
        ELSE IF DigitsLeq(digits, ModelIntMaxDigits)
        THEN Parsed(JInt(IF neg THEN 0 - parse_u64(digits) ELSE parse_u64(digits)), d1)
        ELSE Parsed(JBig(neg, digits), d1)

RECURSIVE string_end(_, _)
\* the position of the quote that closes the string whose text starts at i, 0 if
\* there is none; a backslash takes the character after it along
string_end(s, i) ==
    IF i > Len(s) THEN 0
    ELSE IF s[i] = "\"" THEN i
    ELSE IF s[i] = "\\" THEN string_end(s, i + 2)
    ELSE string_end(s, i + 1)

RECURSIVE unescape(_)
\* the text of a string with its escapes \" \\ \/ resolved
unescape(s) ==
    IF s = <<>> THEN <<>>
    ELSE IF Head(s) = "\\" /\ Len(s) > 1 THEN <<s[2]>> \o unescape(SubSeq(s, 3, Len(s)))
    ELSE <<Head(s)>> \o unescape(Tail(s))

\* a string whose opening quote is at position i
parse_string(s, i) ==
    LET e == string_end(s, i + 1)
    IN  IF e = 0 THEN ParseErr ELSE Parsed(JStr(unescape(SubSeq(s, i + 1, e - 1))), e + 1)

RECURSIVE parse_value(_, _)

RECURSIVE parse_elements(_, _, _)

RECURSIVE parse_members(_, _, _)

\* the JSON value that starts at or after position i
parse_value(s, i0) ==
    LET i == skip_ws(s, i0)
    IN  IF i > Len(s) THEN ParseErr
        ELSE CASE s[i] = "n" ->
                    IF StartsWithAt(s, <<"n","u","l","l">>, i) THEN Parsed(JNull, i + 4) ELSE ParseErr
               [] s[i] = "t" ->
                    IF StartsWithAt(s, <<"t","r","u","e">>, i) THEN Parsed(JBool(TRUE), i + 4) ELSE ParseErr
               [] s[i] = "f" ->
                    IF StartsWithAt(s, <<"f","a","l","s","e">>, i) THEN Parsed(JBool(FALSE), i + 5)
                    ELSE ParseErr
               [] s[i] = "\"" -> parse_string(s, i)
               [] s[i] = "[" ->
                    LET j == skip_ws(s, i + 1)
                    IN  IF j <= Len(s) /\ s[j] = "]" THEN Parsed(JArr(<<>>), j + 1)
                        ELSE parse_elements(s, i + 1, <<>>)
               [] s[i] = "{" ->
                    LET j == skip_ws(s, i + 1)
                    IN  IF j <= Len(s) /\ s[j] = "}" THEN Parsed(JObj(<<>>), j + 1)
                        ELSE parse_members(s, i + 1, <<>>)
               [] s[i] = "-" \/ IsDigit(s[i]) -> parse_number(s, i)
               [] OTHER -> ParseErr

\* the elements of an array from position i on, after the elements acc
parse_elements(s, i, acc) ==
    LET v == parse_value(s, i)
    IN  IF ~v.ok THEN ParseErr
        ELSE LET j == skip_ws(s, v.next)
             IN  IF j > Len(s) THEN ParseErr
                 ELSE IF s[j] = "," THEN parse_elements(s, j + 1, Append(acc, v.val))
                 ELSE IF s[j] = "]" THEN Parsed(JArr(Append(acc, v.val)), j + 1)
                 ELSE ParseErr

\* the members of an object from position i on, after the members acc
parse_members(s, i, acc) ==
    LET k == skip_ws(s, i)
    IN  IF k > Len(s) \/ s[k] # "\"" THEN ParseErr
        ELSE LET key   == parse_string(s, k)
                 colon == IF key.ok THEN skip_ws(s, key.next) ELSE 0
             IN  IF ~key.ok \/ colon > Len(s) \/ s[colon] # ":" THEN ParseErr
                 ELSE LET v == parse_value(s, colon + 1)
                      IN  IF ~v.ok THEN ParseErr
                          ELSE LET j == skip_ws(s, v.next)
                                   m == Append(acc, <<key.val.s, v.val>>)
                               IN  IF j > Len(s) THEN ParseErr
                                   ELSE IF s[j] = "," THEN parse_members(s, j + 1, m)
                                   ELSE IF s[j] = "}" THEN Parsed(JObj(m), j + 1)
                                   ELSE ParseErr

\* serde_json's reading of a whole text: one value, then nothing but white space
parse_json(text) ==
    LET v == parse_value(text, 1)
    IN  IF ~v.ok THEN DecodeErr("expected value")
        ELSE IF skip_ws(text, v.next) # Len(text) + 1 THEN DecodeErr("trailing characters")
        ELSE DecodeOk(v.val)

\* serde_json::from_str::<T>(text) for the type `kind`
serde_json_from_str(kind, text) ==
    LET json == parse_json(text)
    IN  IF json.ok THEN deserialize_plain(kind, json.val) ELSE json

\* ------------------------------------------------------------------ authenticated operations

\* the value of a function that returns nothing
Unit == <<"()">>

\* an f64 given by its whole part and the digits of its fraction
F64(whole, frac) == [whole |-> whole, frac |-> frac]

\* f64::to_string: the shortest text, no fraction for a whole number
f64_to_string(x) ==
    IF x.frac = <<>> THEN to_string(x.whole) ELSE to_string(x.whole) \o <<".">> \o x.frac

\* a JSON string as serde_json writes it
json_string(s) == <<"\"">> \o json_escape(s) \o <<"\"">>

\* one member of a JSON object: the key and the text of its value
json_member(key, value_text) == <<json_string(key) \o <<":">> \o value_text>>

\* the member of an optional argument: none for None
json_optional(key, option, value_text) ==
    IF IsSome(option) THEN json_member(key, value_text) ELSE <<>>

\* Value::to_string of an object, its members in the order of serde_json's Map
json_object(members) == <<"{">> \o join(members, <<",">>) \o <<"}">>

\* self.post_url(&url).await of the operation op of call c
EndpointPostUrl(c, url, op) ==
    Call(c, [method |-> "post", url |-> url, payload |-> None, params |-> None, op |-> op])

\* pub async fn request_wallets(&self), up to self.post_url(..).await
request_wallets(c) ==
    /\ pc[c] = "idle"
    /\ EndpointPostUrl(c, <<"a","u","t","h","/","r","/","w","a","l","l","e","t","s">>, [name |-> "request_wallets", cli |-> FALSE])

\* pub async fn request_trading_orders(..), up to self.post_with_payload(..).await
request_trading_orders(c, symbol, group_id, client_id, client_id_date) ==
    /\ pc[c] = "idle"
    /\ LET op  == [name |-> "request_trading_orders", cli |-> FALSE, symbol |-> symbol,
                   group_id |-> group_id, client_id |-> client_id,
                   client_id_date |-> client_id_date]
           url == IF IsSome(symbol) THEN <<"a","u","t","h","/","r","/","o","r","d","e","r","s">> \o <<"/">> \o symbol[2]
                  ELSE <<"a","u","t","h","/","r","/","o","r","d","e","r","s">>
       IN  IF IsSome(client_id) /\ ~IsSome(client_id_date) THEN Panic(c, op)
           ELSE EndpointPost(c, url,
                    json_object(
                        json_optional(<<"c","i","d">>, client_id, json_string(client_id[2]))
                        \o json_optional(<<"c","i","d","_","d","a","t","e">>, client_id,
                                         json_string(client_id_date[2]))
                        \o json_optional(<<"g","i","d">>, group_id, to_string(group_id[2]))),
                    op)

\* let url = String::from("auth/w/order/submit");   (trading.rs 456)
update_order_url == <<"a","u","t","h","/","w","/","o","r","d","e","r","/","s","u","b","m","i","t">>

\* let url = String::from("auth/w/order/submit");   (trading.rs 397)
submit_order_url == <<"a","u","t","h","/","w","/","o","r","d","e","r","/","s","u","b","m","i","t">>

\* pub async fn submit_trading_order(..), up to self.post_with_payload(..).await
submit_trading_order(c, symbol, order_type, amount, price, lev, price_trailing, price_aux_limit, price_oco_stop, gid, cid, flags, time_in_force, op) ==
    EndpointPost(c, submit_order_url,
        json_object(
            json_member(<<"a","m","o","u","n","t">>, json_string(amount))
            \o json_optional(<<"c","i","d">>, cid, to_string(cid[2]))
            \o json_optional(<<"f","l","a","g","s">>, flags, to_string(flags[2]))
            \o json_optional(<<"g","i","d">>, gid, to_string(gid[2]))
            \o json_optional(<<"l","e","v">>, lev, to_string(lev[2]))
            \o json_member(<<"p","r","i","c","e">>, json_string(price))
            \o json_optional(<<"p","r","i","c","e","_","a","u","x","_","l","i","m","i","t">>, price_aux_limit, json_string(price_aux_limit[2]))
            \o json_optional(<<"p","r","i","c","e","_","o","c","o","_","s","t","o","p">>, price_oco_stop, json_string(price_oco_stop[2]))
            \o json_optional(<<"p","r","i","c","e","_","t","r","a","i","l","i","n","g">>, price_trailing, json_string(price_trailing[2]))
            \o json_member(<<"s","y","m","b","o","l">>, json_string(symbol))
            \o json_optional(<<"t","i","f">>, time_in_force, json_string(time_in_force[2]))
            \o json_member(<<"t","y","p","e">>, json_string(TradingOrderType_to_string(order_type)))),
        op)

\* a library caller submits an order of the type order_type
submit_trading_order_call(c, symbol, order_type, amount, price, lev, gid) ==
    /\ pc[c] = "idle"
    /\ submit_trading_order(c, symbol, order_type, amount, price, lev, None, None, None,
                            gid, None, None, None,
                            [name |-> "submit_trading_order", cli |-> FALSE,
                             order_type |-> order_type])

\* cli.rs, TradingAction::Submit: the tokens PossibleValuesParser accepts for
\* --order-type
CliOrderTypes ==
    {<<"l","i","m","i","t">>, <<"e","x","c","h","a","n","g","e","-","l","i","m","i","t">>, <<"m","a","r","k","e","t">>, <<"e","x","c","h","a","n","g","e","-","m","a","r","k","e","t">>, <<"s","t","o","p">>, <<"e","x","c","h","a","n","g","e","-","s","t","o","p">>,
     <<"s","t","o","p","-","l","i","m","i","t">>, <<"e","x","c","h","a","n","g","e","-","s","t","o","p","-","l","i","m","i","t">>, <<"t","r","a","i","l","i","n","g","-","s","t","o","p">>, <<"e","x","c","h","a","n","g","e","-","t","r","a","i","l","i","n","g","-","s","t","o","p">>,
     <<"f","o","k">>, <<"e","x","c","h","a","n","g","e","-","f","o","k">>, <<"i","o","c">>, <<"e","x","c","h","a","n","g","e","-","i","o","c">>}

\* cli.rs, process_trading_action, TradingAction::Submit:
\* submit_trading_order(symbol, order_type.as_str().into(), amount, price, ..)
process_trading_action_Submit(c, symbol, order_type, amount, price) ==
    /\ pc[c] = "idle"
    /\ submit_trading_order(c, symbol, TradingOrderType_from(order_type), amount, price,
                            None, None, None, None, None, None, None, None,
                            [name |-> "submit_trading_order", cli |-> TRUE,
                             token |-> order_type])

\* pub async fn update_trading_order(..), up to self.post_with_payload(..).await
update_trading_order(c, id, amount, price, delta, lev, price_trailing, price_aux_limit, gid, cid, cid_date, flags, time_in_force) ==
    /\ pc[c] = "idle"
    /\ EndpointPost(c, update_order_url,
          json_object(
              json_optional(<<"a","m","o","u","n","t">>, amount, json_string(amount[2]))
              \o json_optional(<<"c","i","d">>, cid, to_string(cid[2]))
              \o json_optional(<<"c","i","d","_","d","a","t","e">>, cid_date, json_string(cid_date[2]))
              \o json_optional(<<"d","e","l","t","a">>, delta, json_string(delta[2]))
              \o json_optional(<<"f","l","a","g","s">>, flags, to_string(flags[2]))
              \o json_optional(<<"g","i","d">>, gid, to_string(gid[2]))
              \o json_member(<<"i","d">>, to_string(id))
              \o json_optional(<<"l","e","v">>, lev, to_string(lev[2]))
              \o json_optional(<<"p","r","i","c","e">>, price, json_string(price[2]))
              \o json_optional(<<"p","r","i","c","e","_","a","u","x","_","l","i","m","i","t">>, price_aux_limit,
                               json_string(price_aux_limit[2]))
              \o json_optional(<<"p","r","i","c","e","_","t","r","a","i","l","i","n","g">>, price_trailing,
                               json_string(price_trailing[2]))
              \o json_optional(<<"t","i","f">>, time_in_force, json_string(time_in_force[2]))),
          [name |-> "update_trading_order", cli |-> FALSE, id |-> id])

\* pub async fn cancel_trading_order(..), up to self.post_with_payload(..).await
cancel_trading_order(c, id, cid, cid_date) ==
    /\ pc[c] = "idle"
    /\ LET op == [name |-> "cancel_trading_order", cli |-> FALSE, id |-> id, cid |-> cid,
                  cid_date |-> cid_date]
       IN  IF ~IsSome(id) /\ ~IsSome(cid) THEN Panic(c, op)
           ELSE IF IsSome(cid) /\ ~IsSome(cid_date) THEN Panic(c, op)
           ELSE EndpointPost(c, <<"a","u","t","h","/","w","/","o","r","d","e","r","/","c","a","n","c","e","l">>,
                    json_object(
                        json_optional(<<"c","i","d">>, cid, to_string(cid[2]))
                        \o json_optional(<<"c","i","d","_","d","a","t","e">>, cid, json_string(cid_date[2]))
                        \o json_optional(<<"i","d">>, id, to_string(id[2]))),
                    op)

\* impl std::fmt::Display for FundingOrderType
FundingOrderType_to_string(order_type) ==
    CASE order_type = "Limit"       -> <<"L","I","M","I","T">>
      [] order_type = "FrrDeltaFix" -> <<"F","R","R","D","E","L","T","A","F","I","X">>
      [] order_type = "FrrDeltaVar" -> <<"F","R","R","D","E","L","T","A","V","A","R">>

\* the range taken from 0
period_in_range_from_zero(period) == 0 <= period /\ period <= 120

\* (2..=120).contains(&period)
period_in_range(period) == 2 <= period /\ period <= 120

\* pub async fn submit_funding_offer(..), up to self.post_with_payload(..).await
submit_funding_offer(c, symbol, amount, rate, period, order_type) ==
    /\ pc[c] = "idle"
    /\ LET op == [name |-> "submit_funding_offer", cli |-> FALSE, period |-> period]
       IN  IF ~period_in_range(period) THEN Panic(c, op)
           ELSE EndpointPost(c, <<"a","u","t","h","/","w","/","f","u","n","d","i","n","g","/","o","f","f","e","r","/","s","u","b","m","i","t">>,
                    json_object(
                        json_member(<<"a","m","o","u","n","t">>, json_string(f64_to_string(amount)))
                        \o json_member(<<"p","e","r","i","o","d">>, to_string(period))
                        \o json_member(<<"r","a","t","e">>, json_string(f64_to_string(rate)))
                        \o json_member(<<"s","y","m","b","o","l">>, json_string(symbol))
                        \o json_member(<<"t","y","p","e">>, json_string(FundingOrderType_to_string(order_type)))),
                    op)

\* pub async fn cancel_funding_offer_all(&self, symbol) called by a library caller
\* (cli FALSE) or by cli.rs, process_funding_action, FundingAction::CancelAll
cancel_funding_offer_all_call(c, symbol, cli) ==
    /\ pc[c] = "idle"
    /\ LET op  == [name |-> "cancel_funding_offer_all", cli |-> cli, symbol |-> symbol]
           ccy == parse_ccy_from_symbol(symbol)
       IN  IF ccy = Panics THEN Panic(c, op)
           ELSE EndpointPost(c, <<"a","u","t","h","/","w","/","f","u","n","d","i","n","g","/","o","f","f","e","r","/","c","a","n","c","e","l","/","a","l","l">>, currency_payload(ccy), op)

\* the type the operation reads the response body into
ResultKind(name) ==
    CASE name = "request_wallets"        -> "Vec<Wallet>"
      [] name = "request_trading_orders" -> "Vec<TradingOrder>"
      [] name = "submit_trading_order"   -> "TradingOrderMultiResult"
      [] name = "update_trading_order"   -> "TradingOrderResult"
      [] name = "cancel_trading_order"   -> "TradingOrderResult"
      [] name = "submit_funding_offer"   -> "FundingOfferResult"

\* what the operation hands back of the value it read: Ok(result.orders),
\* Ok(result.order), Ok(resp.offer), or the whole value
ResultPart(name, value) ==
    CASE name = "submit_trading_order"   -> value[<<"o","r","d","e","r","s">>]
      [] name \in {"update_trading_order", "cancel_trading_order"} -> value[<<"o","r","d","e","r">>]
      [] name = "submit_funding_offer"   -> value[<<"o","f","f","e","r">>]
      [] OTHER                           -> value

AuthOperations ==
    {"request_wallets", "request_trading_orders", "submit_trading_order",
     "update_trading_order", "cancel_trading_order", "submit_funding_offer",
     "cancel_funding_offer_all"}

\* println!("Canceled all funding offers");   (cli.rs 914)
CanceledAllText == <<"C","a","n","c","e","l","e","d"," ","a","l","l"," ","f","u","n","d","i","n","g"," ","o","f","f","e","r","s">>

\* post has returned to the operation of call c, which runs to its end:
\* cancel_funding_offer_all drops the result (`let _ =`) and returns; the others
\* hand an Err on with `?` or read the body with from_str(&body).unwrap(), which
\* panics when the body does not decode. The command line prints after
\* cancel_funding_offer_all and unwraps what the other operations return.
Complete(c) ==
    /\ pc[c] = "returned"
    /\ "op" \in DOMAIN args[c]
    /\ args[c].op.name \in AuthOperations
    /\ LET op == args[c].op
           r  == result[c]
       IN  IF op.name = "cancel_funding_offer_all"
           THEN /\ returned' = [returned EXCEPT ![c] = Unit]
                /\ pc' = [pc EXCEPT ![c] = "done"]
                /\ stdout' = [stdout EXCEPT ![c] =
                                 IF op.cli THEN Append(@, CanceledAllText) ELSE @]
                /\ UNCHANGED decoded
           ELSE IF ~r.ok
           THEN /\ returned' = [returned EXCEPT ![c] = r]
                /\ pc' = [pc EXCEPT ![c] = IF op.cli THEN "panicked" ELSE "done"]
                /\ UNCHANGED <<stdout, decoded>>
           ELSE LET d == serde_json_from_str(ResultKind(op.name), r.val)
                IN  /\ decoded' = [type |-> ResultKind(op.name), value |-> r.val, result |-> d]
                    /\ IF d.ok
                       THEN /\ returned' = [returned EXCEPT ![c] = Ok(ResultPart(op.name, d.val))]
                            /\ pc' = [pc EXCEPT ![c] = "done"]
                       ELSE /\ pc' = [pc EXCEPT ![c] = "panicked"]
                            /\ UNCHANGED returned
                    /\ UNCHANGED stdout
    /\ UNCHANGED <<clock, api_key, api_secret, args, attempt, req, prevReq, builtAt, outcome,
                   body, wake, result, sent, fails, serverMax>>

\* ------------------------------------------------------------------ inputs of the authenticated operations

OrderSymbols == {None, Some(<<"t","B","T","C","U","S","D">>)}

GroupIds == {None, Some(5)}

ClientIds == {None, Some(<<"7","7">>)}

Cids == {None, Some(77)}

CidDates == {None, Some(<<"2","0","2","4","-","0","1","-","1","5">>)}

OrderIds == {None, Some(1234)}

Amounts == {None, Some(<<"0",".","5">>)}

Prices == {None, Some(<<"3","0","0","0","0">>)}

Leverages == {None, Some(10)}

FundingOrderTypes == {"Limit", "FrrDeltaVar", "FrrDeltaFix"}

\* a TradingOrder as the exchange sends it, and one that names the order type by
\* the identifier of the variant
OrderText ==
    <<"[","1","2","3","4",",","n","u","l","l",",","7","7",",","\"","t","B","T","C","U","S","D","\"",",","1","7","0","0","0","0","0","0","0","0","0","0","0",",","1","7","0","0","0","0","0","0","0","0","0","0","0",",","0",".","5",",","0",".","5",",","\"","E","X","C","H","A","N","G","E"," ","L","I","M","I","T","\"",",","n","u","l","l",",">>
    \o <<"n","u","l","l",",","n","u","l","l",",","0",",","\"","A","C","T","I","V","E","\"",",","n","u","l","l",",","n","u","l","l",",","3","0","0","0","0",",","0",",","0",",","0",",","n","u","l","l",",","n","u","l","l",",","n","u","l","l",",","0",",","0",",","n","u","l","l",",","n","u","l","l",",","n","u","l","l",",">>
    \o <<"\"","A","P","I",">","B","F","X","\"",",","n","u","l","l",",","n","u","l","l",",","n","u","l","l","]">>

OrderTextIdent ==
    <<"[","1","2","3","4",",","n","u","l","l",",","7","7",",","\"","t","B","T","C","U","S","D","\"",",","1","7","0","0","0","0","0","0","0","0","0","0","0",",","1","7","0","0","0","0","0","0","0","0","0","0","0",",","0",".","5",",","0",".","5",",","\"","E","x","c","h","a","n","g","e","L","i","m","i","t","\"",",","n","u","l","l",",">>
    \o <<"n","u","l","l",",","n","u","l","l",",","0",",","\"","A","C","T","I","V","E","\"",",","n","u","l","l",",","n","u","l","l",",","3","0","0","0","0",",","0",",","0",",","0",",","n","u","l","l",",","n","u","l","l",",","n","u","l","l",",","0",",","0",",","n","u","l","l",",","n","u","l","l",",","n","u","l","l",",">>
    \o <<"\"","A","P","I",">","B","F","X","\"",",","n","u","l","l",",","n","u","l","l",",","n","u","l","l","]">>

OfferText ==
    <<"[","4","1","2","1","5","2","7","5",",","\"","f","U","S","D","\"",",","1","7","0","0","0","0","0","0","0","0","0","0","0",",","1","7","0","0","0","0","0","0","0","0","0","0","0",",","1","5","0",",","1","5","0",",","\"","L","I","M","I","T","\"",",","n","u","l","l",",","n","u","l","l",",","0",",","\"","A","C","T","I","V","E","\"",",">>
    \o <<"n","u","l","l",",","n","u","l","l",",","n","u","l","l",",","0",".","0","0","0","5",",","2",",","0",",","0",",","n","u","l","l",",","0",",","n","u","l","l","]">>

\* a notification around the value `inner`
NotificationText(type, inner) ==
    <<"[","1","7","0","0","0","0","0","0","0","0","0","0","0",",","\"">> \o type \o <<"\"",",","n","u","l","l",",","n","u","l","l",",">> \o inner \o <<",","n","u","l","l",",","\"","S","U","C","C","E","S","S","\"",",","\"","S","u","b","m","i","t","t","e","d","\"","]">>

\* the answers of the server to an authenticated operation: results of the
\* operations, bodies that are no result of any of them, and a terminal error
AuthBodies ==
    { <<"[","]">>,
      <<"[","[","\"","e","x","c","h","a","n","g","e","\"",",","\"","U","S","D","\"",",","1",".","5",",","0",",","1",".","5",",","n","u","l","l",",","n","u","l","l","]","]">>,
      <<"[","[","\"","e","x","c","h","a","n","g","e","\"",",","\"","U","S","D","\"",",","1",".","5",",","0",",","1",".","5",",","n","u","l","l","]","]">>,
      <<"[","[","\"","e","x","c","h","a","n","g","e","\"",",","\"","U","S","D","\"",",","\"","1",".","5","\"",",","0",",","1",".","5",",","n","u","l","l",",","n","u","l","l","]","]">>,
      <<"<","h","t","m","l",">","5","0","2"," ","B","a","d"," ","G","a","t","e","w","a","y","<","/","h","t","m","l",">">>,
      <<"[">> \o OrderText \o <<"]">>,
      <<"[">> \o OrderTextIdent \o <<"]">>,
      NotificationText(<<"o","n","-","r","e","q">>, OrderTextIdent),
      NotificationText(<<"o","n","-","r","e","q">>, <<"[">> \o OrderTextIdent \o <<"]">>),
      NotificationText(<<"f","o","n","-","r","e","q">>, OfferText),
      <<"[","\"","e","r","r","o","r","\"",","," ","1","1","0","1","0",","," ","\"","r","a","t","e","l","i","m","i","t",":"," ","e","r","r","o","r","\"","]">> }

\* the response of the server to the request of call c
AuthAnswer(c) ==
    /\ \E b \in AuthBodies : Receive(c, b)
    /\ UNCHANGED serverMax

\* one authenticated operation of the Client, called with any of the inputs
\* above, against a transport that fails or delivers any of the answers
NextAuth ==
    \/ request_wallets(1)
    \/ \E s \in OrderSymbols, g \in GroupIds, ci \in ClientIds, d \in CidDates :
          request_trading_orders(1, s, g, ci, d)
    \/ \E t \in DOMAIN TradingOrderType, l \in Leverages, g \in GroupIds :
          submit_trading_order_call(1, <<"t","B","T","C","U","S","D">>, TradingOrderType[t], <<"0",".","5">>, <<"3","0","0","0","0">>, l, g)
    \/ \E t \in CliOrderTypes : process_trading_action_Submit(1, <<"t","B","T","C","U","S","D">>, t, <<"0",".","5">>, <<"3","0","0","0","0">>)
    \/ \E a \in Amounts, p \in Prices, d \in CidDates :
          update_trading_order(1, 1234, a, p, None, None, None, None, None, None, d, None, None)
    \/ \E i \in OrderIds, ci \in Cids, d \in CidDates : cancel_trading_order(1, i, ci, d)
    \/ \E p \in Periods, t \in FundingOrderTypes :
          submit_funding_offer(1, <<"f","U","S","D">>, F64(150, <<>>), F64(0, <<"0","0","0","5">>), p, t)
    \/ \E s \in Symbols, cli \in BOOLEAN : cancel_funding_offer_all_call(1, s, cli)
    \/ AuthAnswer(1)
    \/ TransportError(1)
    \/ SleepTick
    \/ Wake(1)
    \/ Complete(1)

SpecAuth == Init /\ [][NextAuth]_vars

\* ------------------------------------------------------------------ claims on the authenticated operations

\* call c runs an authenticated operation
HasOp(c) == "op" \in DOMAIN args[c] /\ args[c].op.name \in AuthOperations

\* the operation of call c has come to its end, by a return or by a panic
Ended(c) == pc[c] \in {"done", "panicked"}

\* post handed the operation of call c a body that does not decode into the
\* operation's result type
UndecodableBody(c) ==
    /\ HasOp(c)
    /\ args[c].op.name # "cancel_funding_offer_all"
    /\ result[c].ok
    /\ ~serde_json_from_str(ResultKind(args[c].op.name), result[c].val).ok

\* C23: when a response body received without error does not decode into the
\* operation's result type, the operation returns a typed decode error to its
\* caller, does not abort, and the request is not sent again.
C23_DecodeErrorReturned ==
    \A c \in Calls :
        (UndecodableBody(c) /\ Ended(c))
        => /\ pc[c] = "done"
           /\ returned[c] # NoResult
           /\ ~returned[c].ok
           /\ sent[c] = 1 + fails[c].transport + fails[c].nonce

\* post returned an error to the operation of call c: a classified error or the
\* retry-exhausted failure
RequestFailed(c) == HasOp(c) /\ result[c] # NoResult /\ ~result[c].ok

\* C24: every client operation, cancel_funding_offer_all included, reports a
\* failure of its request to its caller as a typed error: after post returned a
\* classified error or the retry-exhausted failure, the operation hands that
\* error to its caller and nothing tells the caller it succeeded.
C24_FailureReported ==
    \A c \in Calls :
        (RequestFailed(c) /\ Ended(c))
        => /\ returned[c] = result[c]
           /\ stdout[c] = <<>>

\* ------------------------------------------------------------------ claims on the attempts of a call

\* the headers that carry the nonce and what is computed from it
NonceHeaders == {"bfx-nonce", "bfx-signature"}

\* requests r and q are alike in everything but the nonce and the signature
AlikeButNonce(r, q) ==
    /\ r.method = q.method
    /\ r.endpoint = q.endpoint
    /\ r.body = q.body
    /\ r.query = q.query
    /\ DOMAIN r.headers = DOMAIN q.headers
    /\ \A h \in DOMAIN r.headers \ NonceHeaders : r.headers[h] = q.headers[h]

\* C25: across the attempts of one post call the endpoint URL, the request body,
\* the query parameters and the bfx-apikey header are those of the call on every
\* attempt, only bfx-nonce and bfx-signature may differ from the attempt before,
\* and the Client's api_key and api_secret are never changed.
C25_AttemptsAlike ==
    /\ api_key = "key"
    /\ api_secret = "secret"
    /\ \A c \in Calls :
          req[c].method = "post"
          => /\ req[c].endpoint = BITFINEX_AUTH_HOST \o <<"/">> \o args[c].url
             /\ req[c].body = args[c].payload
             /\ req[c].query = args[c].params
             /\ req[c].headers["bfx-apikey"] = api_key
             /\ attempt[c] > 0 => AlikeButNonce(req[c], prevReq[c])

\* C25 witness: a later attempt of a post call with a body and one with query
\* parameters, its nonce and signature other than those of the attempt before
C25_Witness ==
    /\ req[1].method = "post"
    /\ attempt[1] >= 2
    /\ IsSome(req[1].query)
    /\ Nonce(req[1]) # Nonce(prevReq[1])
    /\ Signature(req[1]) # Signature(prevReq[1])
    /\ AlikeButNonce(req[1], prevReq[1])

\* ------------------------------------------------------------------ claims on the arguments of the operations

\* the operation of call c was called without a companion parameter it needs, or
\* with a period outside 2..=120
BadParameters(c) ==
    LET op == args[c].op
    IN  \/ /\ op.name = "request_trading_orders"
           /\ IsSome(op.client_id)
           /\ ~IsSome(op.client_id_date)
        \/ /\ op.name = "cancel_trading_order"
           /\ \/ ~IsSome(op.id) /\ ~IsSome(op.cid)
              \/ IsSome(op.cid) /\ ~IsSome(op.cid_date)
        \/ /\ op.name = "submit_funding_offer"
           /\ (op.period < 2 \/ op.period > 120)

\* C26: request_trading_orders and cancel_trading_order called with a cid and
\* no cid_date, cancel_trading_order called with neither id nor cid, and
\* submit_funding_offer called with a period outside 2..=120 are rejected before
\* any request is sent: the call ends at once, no request was built and zero
\* requests were sent.
C26_RejectedBeforeSend ==
    \A c \in Calls :
        (HasOp(c) /\ BadParameters(c))
        => /\ pc[c] = "panicked"
           /\ sent[c] = 0
           /\ req[c] = NoReq
           /\ returned[c] = NoResult

\* C26 witness: submit_funding_offer called with period 121 has ended without a
\* request
C26_Witness ==
    /\ HasOp(1)
    /\ pc[1] = "panicked"
    /\ sent[1] = 0
    /\ args[1].op.name = "submit_funding_offer"
    /\ args[1].op.period = 121

\* the wire literal of the order type that has the name of the token: the token
\* in upper case, its hyphens as spaces
WireLiteralOf(token) == replace(to_uppercase(token), "-", <<" ">>)

\* the member "type" of an order body for the literal
TypeMember(literal) == <<"\"","t","y","p","e","\"",":","\"">> \o literal \o <<"\"">>

\* C27: every token the command line accepts for the order type of 'trading
\* submit' converts through TradingOrderType::from to the order type of the same
\* name, so the "type" sent in the order body is the matching wire literal
\* (exchange-limit gives "EXCHANGE LIMIT"), and two different tokens never give
\* the same type.
C27_CliOrderType ==
    \A c \in Calls :
        (/\ HasOp(c)
         /\ args[c].op.name = "submit_trading_order"
         /\ args[c].op.cli
         /\ req[c] # NoReq)
        => /\ Contains(req[c].body[2], TypeMember(WireLiteralOf(args[c].op.token)))
           /\ \A other \in CliOrderTypes \ {args[c].op.token} :
                 ~Contains(req[c].body[2],
                           TypeMember(TradingOrderType_to_string(TradingOrderType_from(other))))

\* C28: update_trading_order sends its request to the order-update endpoint,
\* auth/w/order/update, a path other than the one submit_trading_order uses: an
\* update of an existing order never reaches the submit endpoint.
C28_UpdateEndpoint ==
    \A c \in Calls :
        (HasOp(c) /\ args[c].op.name = "update_trading_order" /\ req[c] # NoReq)
        => /\ req[c].path = <<"a","u","t","h","/","w","/","o","r","d","e","r","/","u","p","d","a","t","e">>
           /\ req[c].endpoint = BITFINEX_AUTH_HOST \o <<"/","a","u","t","h","/","w","/","o","r","d","e","r","/","u","p","d","a","t","e">>
           /\ req[c].path # submit_order_url

\* C29: for every response text holding an envelope "error",<code>,"<message>",
\* parse_error yields the code and exactly the text between the quotes of the
\* message - with commas inside the message and with characters after the
\* envelope alike - so that handle_error hands Generic(message) the message of
\* the server unaltered.
C29_MessageUnaltered ==
    \A c \in Calls :
        (Answered(c) /\ HasEnvelope(body[c])) =>
            /\ IsSome(parse_error(body[c]))
            /\ parse_error(body[c])[2][1] = EnvCode(body[c])
            /\ parse_error(body[c])[2][2] = EnvMessage(body[c])
            /\ TableReason(EnvCode(body[c]), <<>>)[1] = "BitfinexGenericError" =>
                  handle_error(body[c]) = Err(BitfinexGenericError(EnvMessage(body[c])))

\* s is a suffix of t
IsSuffix(s, t) == Len(s) <= Len(t) /\ SubSeq(t, Len(t) - Len(s) + 1, Len(t)) = s

\* C30: parse_ccy_from_symbol returns a value without aborting for every symbol -
\* the empty text, a lone 'f' or 't' and trading symbols shorter than four
\* characters included - and the value is a suffix of the symbol:
\* cancel_funding_offer_all never aborts in it and sends that suffix as currency.
C30_NeverAborts ==
    \A c \in Calls :
        IsOp(c, "cancel_funding_offer_all") =>
            /\ pc[c] # "panicked"
            /\ parse_ccy_from_symbol(args[c].op.symbol) # Panics
            /\ IsSuffix(parse_ccy_from_symbol(args[c].op.symbol), args[c].op.symbol)
            /\ req[c].body = Some(currency_payload(parse_ccy_from_symbol(args[c].op.symbol)))
====
